---- MODULE Spec2Model ----
(***************************************************************************)
(* Orchestration core of my-bitburner: the resource allocator              *)
(* (core/resource-allocator.ts), the module registry                       *)
(* (core/module-registry.ts) and the daemon control loop (daemon.ts).      *)
(*                                                                         *)
(* RAM amounts are integers (GB).  Time is in milliseconds and advances    *)
(* by updateInterval at the sleep that ends a loop iteration; the shorter  *)
(* sleeps inside startModule and between starts leave the clock as it is;  *)
(* at each of them, the wait after startModule's kill included, the other  *)
(* scripts run.                                                            *)
(***************************************************************************)
EXTENDS Integers, Sequences, FiniteSets, TLC

VARIABLES
    \* ---- allocator call: allocateResources(pool, requests) ----
    pool,            \* the ServerResource[] handed to allocateResources
    requests,        \* the ResourceRequest[] handed to allocateResources
    allocations,     \* the ResourceAllocation[] it returned
    remainingPool,   \* the working copy after the last request was served
    apc,             \* "input" before the call, "done" after it
    \* ---- module registry: /state/module-registry.txt ----
    registryFile,    \* [exists, modules]: the persisted registry document
    defaultRegistry, \* DEFAULT_REGISTRY.modules, the in-memory default table
    now,             \* Date.now()
    ret,             \* what the last registry call returned
    lastCall,        \* the last registry call: [op, name, replaced]
    calls,           \* number of registry calls made so far
    \* ---- daemon (daemon.ts) and its environment ----
    dpc,             \* where main() stands
    queue,           \* the modules a start-up or recovery loop has still to visit
    starting,        \* the startModule call in progress, if any
    ports,           \* port number -> queued messages
    procs,           \* launched module processes, indexed by pid
    enableAutoRecovery,  \* config.enableAutoRecovery
    moduleRestarts,  \* state.statistics.moduleRestarts
    errorLog,        \* number of 'Error in main loop' entries logged
    failedStarts,    \* the modules whose latest startModule call logged
                     \* 'Failed to start module'
    \* ---- network (core/network-manager.ts, ns-utils scanNetwork) ----
    links,           \* host -> what ns.scan(host) returns
    rootAccess,      \* the hosts ns.hasRootAccess holds for
    hostKind,        \* host -> "plain", "purchased" or "hackable"
    networkFile,     \* /state/network-state.txt: absent or the stored document
    scan,            \* a topology scan in progress: [kind, queue, discovered]
    netResult,       \* what the last network-manager call returned
    lastNetworkScan, \* state.lastNetworkScan of the daemon
    \* ---- the servers' RAM, the log files, the daemon's request cache and
    \* ---- /state/resource-allocation.txt ----
    serverRam,       \* host -> [totalRam, usedRam] as ns.getServerMaxRam/UsedRam answer
    logFiles,        \* [main, component]: /daemon-log.txt and /logs/<component>.txt
    resourceRequestCache,  \* module name -> its live ResourceRequest, as listed by Map
    allocationFile   \* /state/resource-allocation.txt: absent or the stored document

allocVars == <<pool, requests, allocations, remainingPool, apc>>

regVars == <<registryFile, defaultRegistry, now, ret, lastCall, calls>>

daemonVars == <<dpc, queue, starting, ports, procs, enableAutoRecovery,
                moduleRestarts, errorLog, failedStarts, failedStarts>>

netVars == <<links, rootAccess, hostKind, networkFile, scan, netResult,
            lastNetworkScan>>

sysVars == <<serverRam, logFiles, resourceRequestCache, allocationFile>>

vars == <<pool, requests, allocations, remainingPool, apc,
          registryFile, defaultRegistry, now, ret, lastCall, calls,
          dpc, queue, starting, ports, procs, enableAutoRecovery,
          moduleRestarts, errorLog, failedStarts, failedStarts,
          links, rootAccess, hostKind, networkFile, scan, netResult,
          lastNetworkScan,
          serverRam, logFiles, resourceRequestCache, allocationFile>>

\* ------------------------------------------------------------------------
\* Bounds
\* ------------------------------------------------------------------------
MaxServers == 2      \* servers in a pool
MaxRequests == 2     \* requests in one allocateResources call
MaxCalls == 3        \* registry calls in one run of the registry specification
MaxClock == 1        \* clock readings 0..MaxClock in the registry specification
MaxTicks == 5        \* main-loop sleeps in one run of the daemon
MaxPid == 3          \* pids of the process table
PortCapacity == 1    \* messages a port holds
MaxUserCalls == 1    \* registry calls made by the operator while the daemon runs
MaxErrors == 1       \* exceptions thrown inside the main loop

PortNumbers == {10, 11, 30, 31}

Hostnames == {"home", "n1", "n2"}
AvailChoices == 0..2
RequestNames == <<"m1", "m2", "m3", "m4">>
PriorityChoices == {1, 2}
\* <<minRam, maxRam>> of a request
NeedChoices == {<<0, 1>>, <<1, 2>>, <<2, 2>>}
PreferredChoices == {<<>>, <<"home", "n2">>}
\* preferredServers lists under which two servers of a pool fall in one group:
\* home with another server, or two servers other than home, both preferred
\* or both not
PreferredLists == {<<>>, <<"home", "n2">>, <<"n1", "n2">>, <<"home">>, <<"n1">>}

\* a nullable result is a sequence of length 0 (null) or 1
Null == <<>>

Min(a, b) == IF a < b THEN a ELSE b

Range(s) == {s[i] : i \in DOMAIN s}

RECURSIVE SumSeq(_)
SumSeq(s) == IF s = <<>> THEN 0 ELSE Head(s) + SumSeq(Tail(s))

\* ------------------------------------------------------------------------
\* Array.prototype.sort: a stable sort driven by a numeric comparator.
\* InsertSorted puts x behind every element that the comparator does not
\* order after it, so equal elements keep their input order.
\* ------------------------------------------------------------------------
InsertSorted(sorted, x, Cmp(_, _)) ==
    LET k == Cardinality({j \in 1..Len(sorted) : Cmp(sorted[j], x) <= 0})
    IN SubSeq(sorted, 1, k) \o <<x>> \o SubSeq(sorted, k + 1, Len(sorted))

StableSort(s, Cmp(_, _)) ==
    LET f[i \in 0..Len(s)] ==
            IF i = 0 THEN <<>> ELSE InsertSorted(f[i - 1], s[i], Cmp)
    IN f[Len(s)]

\* ------------------------------------------------------------------------
\* allocateToModule
\* ------------------------------------------------------------------------
\* comparator of the branch taken when preferredServers is non-empty
CompareGroupsOnly(a, b, preferredSet) ==
    LET aPreferred == IF a.hostname \in preferredSet THEN 1 ELSE 0
        bPreferred == IF b.hostname \in preferredSet THEN 1 ELSE 0
    IN IF aPreferred # bPreferred THEN bPreferred - aPreferred
       ELSE IF a.isHome # b.isHome THEN (IF a.isHome THEN 1 ELSE -1)
       ELSE 0

ComparePreferred(a, b, preferredSet) ==
    LET aPreferred == IF a.hostname \in preferredSet THEN 1 ELSE 0
        bPreferred == IF b.hostname \in preferredSet THEN 1 ELSE 0
    IN IF aPreferred # bPreferred THEN bPreferred - aPreferred
       ELSE IF a.isHome # b.isHome THEN (IF a.isHome THEN 1 ELSE -1)
       ELSE b.availableRam - a.availableRam

\* comparator of the default branch
CompareByAvailable(a, b) == b.availableRam - a.availableRam

CompareDefault(a, b) ==
    IF a.isHome # b.isHome THEN (IF a.isHome THEN 1 ELSE -1)
    ELSE b.availableRam - a.availableRam

\* sortedPool: the servers of remainingPool (as indices, the copy is shallow)
\* in the order the request draws from them
SortedPool(request, rp) ==
    LET idx == [i \in 1..Len(rp) |-> i]
        CmpP(i, j) == ComparePreferred(rp[i], rp[j], Range(request.preferredServers))
        CmpD(i, j) == CompareDefault(rp[i], rp[j])
    IN IF Len(request.preferredServers) > 0
       THEN StableSort(idx, CmpP)
       ELSE StableSort(idx, CmpD)

\* toAllocate = Math.min(needed, server.availableRam)
TakeWholeServer(needed, availableRam) == availableRam

ToAllocate(needed, availableRam) == Min(needed, availableRam)

\* server.availableRam -= toAllocate, on the shared working pool
ConsumeNothing(rp, i, toAllocate) == rp

Consume(rp, i, toAllocate) == [rp EXCEPT ![i].availableRam = @ - toAllocate]

\* totalAllocated += toAllocate
AccumulateLast(totalAllocated, toAllocate) == toAllocate

Accumulate(totalAllocated, toAllocate) == totalAllocated + toAllocate

\* the distribution loop over sortedPool, from position k on
RECURSIVE Distribute(_, _, _, _, _, _)
Distribute(order, k, rp, serverAllocations, totalAllocated, targetRam) ==
    IF k > Len(order) \/ totalAllocated >= targetRam
    THEN [pool |-> rp, serverAllocations |-> serverAllocations,
          totalAllocated |-> totalAllocated]
    ELSE LET i == order[k]
             server == rp[i]
             needed == targetRam - totalAllocated
             toAllocate == ToAllocate(needed, server.availableRam)
         IN IF server.availableRam <= 0 \/ toAllocate <= 0
            THEN Distribute(order, k + 1, rp, serverAllocations,
                            totalAllocated, targetRam)
            ELSE Distribute(order, k + 1,
                            Consume(rp, i, toAllocate),
                            (server.hostname :> toAllocate) @@ serverAllocations,
                            Accumulate(totalAllocated, toAllocate), targetRam)

\* remainingPool.find(s => s.hostname === hostname): first index, 0 if none
FindServer(rp, hostname) ==
    IF \E i \in 1..Len(rp) : rp[i].hostname = hostname
    THEN CHOOSE i \in 1..Len(rp) :
            /\ rp[i].hostname = hostname
            /\ \A j \in 1..(i - 1) : rp[j].hostname # hostname
    ELSE 0

\* the rollback loop: give every recorded amount back to its server
NoRollback(rp, serverAllocations) == rp

Rollback(rp, serverAllocations) ==
    [i \in 1..Len(rp) |->
        IF /\ rp[i].hostname \in DOMAIN serverAllocations
           /\ FindServer(rp, rp[i].hostname) = i
        THEN [rp[i] EXCEPT !.availableRam = @ + serverAllocations[rp[i].hostname]]
        ELSE rp[i]]

\* the floor test that decides between rollback and grant
NeverBelowMinimum(totalAllocated, request) == FALSE

BelowMinimum(totalAllocated, request) == totalAllocated < request.minRam

allocateToModule(request, rp) ==
    LET d == Distribute(SortedPool(request, rp), 1, rp, <<>>, 0, request.maxRam)
    IN IF BelowMinimum(d.totalAllocated, request)
       THEN [allocation |-> Null, pool |-> Rollback(d.pool, d.serverAllocations)]
       ELSE [allocation |-> <<[moduleName |-> request.moduleName,
                               allocatedRam |-> d.totalAllocated,
                               serverAllocations |-> d.serverAllocations]>>,
             pool |-> d.pool]

\* ------------------------------------------------------------------------
\* allocateResources
\* ------------------------------------------------------------------------
\* comparator of the request sort: higher priority first
ComparePriorityAscending(a, b) == a.priority - b.priority

ComparePriority(a, b) == b.priority - a.priority

SortedRequests(reqs) == StableSort(reqs, ComparePriority)

RECURSIVE AllocateLoop(_, _, _, _)
AllocateLoop(sorted, k, rp, allocs) ==
    IF k > Len(sorted) THEN [allocations |-> allocs, pool |-> rp]
    ELSE LET r == allocateToModule(sorted[k], rp)
         IN AllocateLoop(sorted, k + 1, r.pool,
                         allocs \o r.allocation)

optimizeAllocation(allocs) == allocs

\* the call on values: the working pool is a value of its own, so what it
\* returns depends on the contents of the two arrays only (the same function
\* on objects with identity is AllocateResourcesOnHeap)
allocateResources(p, reqs) ==
    LET r == AllocateLoop(SortedRequests(reqs), 1, p, <<>>)
    IN [allocations |-> optimizeAllocation(r.allocations), pool |-> r.pool]

\* ------------------------------------------------------------------------
\* Inputs of an allocateResources call
\* ------------------------------------------------------------------------
ServerResource(h, avail) ==
    [hostname |-> h, availableRam |-> avail, isHome |-> (h = "home")]

\* pools with unique hostnames and non-negative availableRam, in any order
Pools ==
    UNION {
        {[i \in 1..n |-> ServerResource(hs[i], av[i])] :
            hs \in {f \in [1..n -> Hostnames] :
                        \A i, j \in 1..n : i # j => f[i] # f[j]},
            av \in [1..n -> AvailChoices]}
        : n \in 0..MaxServers}

RequestsPreferring(name, lists) ==
    {[moduleName |-> name, priority |-> p, minRam |-> need[1], maxRam |-> need[2],
      preferredServers |-> pref] :
        p \in PriorityChoices, need \in NeedChoices, pref \in lists}

RequestChoices(name) == RequestsPreferring(name, PreferredChoices)

\* request lists: module names are distinct, minRam <= maxRam
RequestListsOf(Choices(_)) ==
    UNION {
        {r \in [1..n -> UNION {Choices(RequestNames[i]) : i \in 1..n}] :
            \A i \in 1..n : r[i].moduleName = RequestNames[i]}
        : n \in 0..MaxRequests}

RequestLists == RequestListsOf(RequestChoices)

\* request lists whose preferredServers range over PreferredLists
PreferringRequestLists ==
    LET Choices(name) == RequestsPreferring(name, PreferredLists)
    IN RequestListsOf(Choices)

\* the registry and clock do not take part in an allocateResources call
RegistryIdle ==
    /\ registryFile = [exists |-> FALSE, modules |-> <<>>]
    /\ defaultRegistry = <<>>
    /\ now = 0
    /\ ret = FALSE
    /\ lastCall = [op |-> "none", name |-> "", replaced |-> FALSE]
    /\ calls = 0

\* no startModule call is under way
NoCall == [caller |-> "none", name |-> "", controlPort |-> 0]

\* no network-manager call has been made
NoScan == [kind |-> "none", queue |-> <<>>, discovered |-> <<>>]

NoResult == [op |-> "none"]

NetIdle ==
    /\ links = <<>>
    /\ rootAccess = {}
    /\ hostKind = <<>>
    /\ networkFile = <<>>
    /\ scan = NoScan
    /\ netResult = NoResult
    /\ lastNetworkScan = 0

\* no RAM table, no log, no cached request, no stored allocation
SysIdle ==
    /\ serverRam = <<>>
    /\ logFiles = [main |-> <<>>, component |-> <<>>]
    /\ resourceRequestCache = <<>>
    /\ allocationFile = <<>>

\* the daemon is not running
DaemonIdle ==
    /\ dpc = "off"
    /\ queue = <<>>
    /\ starting = NoCall
    /\ ports = [p \in PortNumbers |-> <<>>]
    /\ procs = <<>>
    /\ enableAutoRecovery = FALSE
    /\ moduleRestarts = 0
    /\ errorLog = 0
    /\ failedStarts = {}

AllocInputs(lists) ==
    /\ RegistryIdle
    /\ DaemonIdle
    /\ NetIdle
    /\ SysIdle
    /\ pool \in Pools
    /\ requests \in lists
    /\ allocations = <<>>
    /\ remainingPool = pool
    /\ apc = "input"

AllocInit == AllocInputs(RequestLists)

CallAllocateResources ==
    /\ apc = "input"
    /\ LET r == allocateResources(pool, requests)
       IN /\ allocations' = r.allocations
          /\ remainingPool' = r.pool
    /\ apc' = "done"
    /\ UNCHANGED <<pool, requests, regVars, daemonVars, netVars, sysVars>>

AllocNext == CallAllocateResources

AllocSpec == AllocInit /\ [][AllocNext]_vars

\* allocateResources calls whose requests name preferred servers of every
\* kind in PreferredLists
PreferenceInit == AllocInputs(PreferringRequestLists)

PreferenceSpec == PreferenceInit /\ [][AllocNext]_vars

\* ------------------------------------------------------------------------
\* Properties of one allocateResources call
\* ------------------------------------------------------------------------
RECURSIVE SumValues(_)
SumValues(f) ==
    IF DOMAIN f = {} THEN 0
    ELSE LET k == CHOOSE x \in DOMAIN f : TRUE
         IN f[k] + SumValues([x \in (DOMAIN f) \ {k} |-> f[x]])

SumOver(S, F(_)) ==
    LET sum[T \in SUBSET S] ==
            IF T = {} THEN 0
            ELSE LET x == CHOOSE y \in T : TRUE IN F(x) + sum[T \ {x}]
    IN sum[S]

AllocIdx == 1..Len(allocations)
ReqIdx == 1..Len(requests)

\* what allocation k took from hostname h
TakenFrom(k, h) ==
    IF h \in DOMAIN allocations[k].serverAllocations
    THEN allocations[k].serverAllocations[h] ELSE 0

\* the request an allocation answers (module names are distinct)
RequestOf(a) == CHOOSE i \in ReqIdx : requests[i].moduleName = a.moduleName

\* what request i was granted in total: 0 when it has no allocation entry
Granted(i) ==
    LET F(k) == IF requests[i].moduleName = allocations[k].moduleName
                THEN allocations[k].allocatedRam ELSE 0
    IN SumOver(AllocIdx, F)

HasEntry(i) == \E k \in AllocIdx : allocations[k].moduleName = requests[i].moduleName

TotalAvailable(p) ==
    LET F(j) == p[j].availableRam IN SumOver(1..Len(p), F)

\* the requests served before request i: higher priority, or equal priority
\* and earlier in the input
ServedBefore(i) ==
    {j \in ReqIdx : \/ requests[j].priority > requests[i].priority
                    \/ /\ requests[j].priority = requests[i].priority
                       /\ j < i}

\* capacity left in the whole pool when request i has its turn
RemainingAtTurn(i) == TotalAvailable(pool) - SumOver(ServedBefore(i), Granted)

\* C1: No over-commitment: for every server of the input pool, the amounts
\* all returned allocations take from it sum to at most its availableRam.
C1_NoOverCommitment ==
    apc = "done" =>
        \A j \in 1..Len(pool) :
            LET F(k) == TakenFrom(k, pool[j].hostname)
            IN SumOver(AllocIdx, F) <= pool[j].availableRam

\* two allocations share one server and use it up completely
C1_Witness ==
    /\ apc = "done"
    /\ \E j \in 1..Len(pool) : \E k1, k2 \in AllocIdx :
          /\ k1 # k2
          /\ TakenFrom(k1, pool[j].hostname) > 0
          /\ TakenFrom(k2, pool[j].hostname) > 0
          /\ TakenFrom(k1, pool[j].hostname) + TakenFrom(k2, pool[j].hostname)
                = pool[j].availableRam

\* C2: Floor-or-nothing: no returned allocation lies strictly between 0 and
\* its request's minRam, and a request has an allocation entry exactly when
\* its greedy take (maxRam, or all that is left at its turn) reaches minRam.
C2_FloorOrNothing ==
    apc = "done" =>
        /\ \A k \in AllocIdx :
              ~(/\ 0 < allocations[k].allocatedRam
                /\ allocations[k].allocatedRam < requests[RequestOf(allocations[k])].minRam)
        /\ \A i \in ReqIdx :
              HasEntry(i) <=> Min(requests[i].maxRam, RemainingAtTurn(i)) >= requests[i].minRam

\* a request found capacity, but less than its floor, and got no entry
C2_Witness ==
    /\ apc = "done"
    /\ \E i \in ReqIdx :
          /\ ~HasEntry(i)
          /\ RemainingAtTurn(i) > 0
          /\ RemainingAtTurn(i) < requests[i].minRam

DistinctPriorities ==
    \A i, j \in ReqIdx : i # j => requests[i].priority # requests[j].priority

\* the requests whose priority is at least that of request i, in input order
RECURSIVE KeepAtLeast(_, _)
KeepAtLeast(reqs, prio) ==
    IF reqs = <<>> THEN <<>>
    ELSE IF Head(reqs).priority >= prio
         THEN <<Head(reqs)>> \o KeepAtLeast(Tail(reqs), prio)
         ELSE KeepAtLeast(Tail(reqs), prio)

\* C3: Allocation respects priority: with distinct priorities, a request gets
\* its full maxRam whenever the capacity left by the higher-priority requests
\* can supply it, and what it is granted is what it would be granted if no
\* lower-priority request had been made.
C3_RespectsPriority ==
    (apc = "done" /\ DistinctPriorities) =>
        \A i \in ReqIdx :
            /\ RemainingAtTurn(i) >= requests[i].maxRam
                  => Granted(i) = requests[i].maxRam
            /\ LET alone == allocateResources(pool,
                                KeepAtLeast(requests, requests[i].priority)).allocations
               IN \A k \in AllocIdx :
                     allocations[k].moduleName = requests[i].moduleName
                        => \E n \in 1..Len(alone) : alone[n] = allocations[k]
            /\ ~HasEntry(i) =>
                  \A n \in 1..Len(allocateResources(pool,
                                KeepAtLeast(requests, requests[i].priority)).allocations) :
                      allocateResources(pool,
                          KeepAtLeast(requests, requests[i].priority)).allocations[n].moduleName
                        # requests[i].moduleName

\* demand exceeds the pool, the higher-priority request (made second) gets
\* its full maxRam and the lower-priority one gets nothing
C3_Witness ==
    /\ apc = "done"
    /\ DistinctPriorities
    /\ \E i, j \in ReqIdx :
          /\ i < j
          /\ requests[j].priority > requests[i].priority
          /\ requests[i].maxRam + requests[j].maxRam > TotalAvailable(pool)
          /\ requests[j].maxRam > 0
          /\ Granted(j) = requests[j].maxRam
          /\ requests[i].minRam > 0
          /\ ~HasEntry(i)

\* C4: every returned allocation has allocatedRam within [minRam, maxRam] of
\* its request.
C4_WithinBounds ==
    apc = "done" =>
        \A k \in AllocIdx :
            LET r == requests[RequestOf(allocations[k])]
            IN /\ r.minRam <= allocations[k].allocatedRam
               /\ allocations[k].allocatedRam <= r.maxRam

\* a request is capped at its maxRam although the pool holds more
C4_Witness ==
    /\ apc = "done"
    /\ \E k \in AllocIdx :
          LET r == requests[RequestOf(allocations[k])]
          IN /\ allocations[k].allocatedRam = r.maxRam
             /\ r.maxRam > 0
             /\ RemainingAtTurn(RequestOf(allocations[k])) > r.maxRam

\* C5: for every returned allocation, allocatedRam is the sum of the values
\* of its serverAllocations map.
C5_TotalIsSum ==
    apc = "done" =>
        \A k \in AllocIdx :
            allocations[k].allocatedRam = SumValues(allocations[k].serverAllocations)

\* an allocation spread over two servers
C5_Witness ==
    /\ apc = "done"
    /\ \E k \in AllocIdx :
          Cardinality(DOMAIN allocations[k].serverAllocations) >= 2

\* ========================================================================
\* Properties of allocateToModule inside an allocateResources call
\* ========================================================================
\* the place of request i in the order in which the requests are served
TurnOf(i) ==
    CHOOSE k \in 1..Len(requests) :
        SortedRequests(requests)[k].moduleName = requests[i].moduleName

\* the working pool when request i has its turn
PoolAtTurn(i) ==
    AllocateLoop(SubSeq(SortedRequests(requests), 1, TurnOf(i) - 1), 1, pool, <<>>).pool

\* what request i took from the server at place j of the pool
TakenBy(i, j) ==
    LET F(k) == IF allocations[k].moduleName = requests[i].moduleName
                THEN TakenFrom(k, pool[j].hostname) ELSE 0
    IN SumOver(AllocIdx, F)

\* request i left nothing it could have taken on server j
UsedUp(i, j) == TakenBy(i, j) = PoolAtTurn(i)[j].availableRam

\* C22: Rollback: a request whose greedy take ends below its minRam leaves
\* the working pool exactly as it found it, so at the end of the pass every
\* server's availableRam is its input value minus what the returned
\* allocations take from it.
C22_RollbackRestores ==
    apc = "done" =>
        /\ \A i \in ReqIdx :
              ~HasEntry(i) =>
                 allocateToModule(requests[i], PoolAtTurn(i)).pool = PoolAtTurn(i)
        /\ Len(remainingPool) = Len(pool)
        /\ \A j \in 1..Len(pool) :
              LET F(k) == TakenFrom(k, pool[j].hostname)
              IN /\ remainingPool[j].hostname = pool[j].hostname
                 /\ remainingPool[j].availableRam
                       = pool[j].availableRam - SumOver(AllocIdx, F)

\* a request found capacity below its floor and was rolled back, and a
\* request served after it was granted that capacity
C22_Witness ==
    /\ apc = "done"
    /\ \E i, n \in ReqIdx :
          /\ ~HasEntry(i)
          /\ TotalAvailable(PoolAtTurn(i)) > 0
          /\ TurnOf(n) > TurnOf(i)
          /\ HasEntry(n)
          /\ Granted(n) = TotalAvailable(PoolAtTurn(i))

\* C23: Default node ordering: a request without preferredServers that is
\* granted takes min(maxRam, capacity of the working pool), and takes from
\* home only when it has used up every other server.
C23_HomeLast ==
    apc = "done" =>
        \A i \in ReqIdx :
            (HasEntry(i) /\ requests[i].preferredServers = <<>>) =>
                /\ Granted(i) = Min(requests[i].maxRam, TotalAvailable(PoolAtTurn(i)))
                /\ \A h, j \in 1..Len(pool) :
                      (pool[h].isHome /\ ~pool[j].isHome /\ TakenBy(i, h) > 0)
                         => UsedUp(i, j)

\* home is first in the pool and holds more than the other server; the
\* request uses the other server up and takes the rest, not all, from home
C23_Witness ==
    /\ apc = "done"
    /\ Len(pool) = 2
    /\ pool[1].isHome
    /\ pool[1].availableRam > pool[2].availableRam
    /\ \E i \in ReqIdx :
          /\ requests[i].preferredServers = <<>>
          /\ TurnOf(i) = 1
          /\ TakenBy(i, 2) = pool[2].availableRam
          /\ TakenBy(i, 2) > 0
          /\ TakenBy(i, 1) > 0
          /\ TakenBy(i, 1) < pool[1].availableRam

Preferred(i, j) == pool[j].hostname \in Range(requests[i].preferredServers)

\* C24 as stated: preferred servers are drawn from before the others, and
\* inside each group the servers are visited in pool order.
C24_PoolOrderWithinGroups ==
    apc = "done" =>
        \A i \in ReqIdx :
            (HasEntry(i) /\ requests[i].preferredServers # <<>>) =>
                \A a, b \in 1..Len(pool) :
                    (/\ TakenBy(i, b) > 0
                     /\ \/ Preferred(i, a) /\ ~Preferred(i, b)
                        \/ (Preferred(i, a) <=> Preferred(i, b)) /\ a < b)
                       => UsedUp(i, a)

\* the order the code gives the working pool of request i: preferred first,
\* then home last, then more available capacity first, then pool order
VisitedBefore(i, a, b) ==
    LET rp == PoolAtTurn(i)
    IN \/ Preferred(i, a) /\ ~Preferred(i, b)
       \/ /\ Preferred(i, a) <=> Preferred(i, b)
          /\ \/ ~rp[a].isHome /\ rp[b].isHome
             \/ /\ rp[a].isHome <=> rp[b].isHome
                /\ \/ rp[a].availableRam > rp[b].availableRam
                   \/ rp[a].availableRam = rp[b].availableRam /\ a < b

\* C24 (amended): preferred servers are drawn from before the others; inside
\* each group home comes last and the other servers are visited by
\* availableRam in the working pool, larger first, ties in pool order.
C24_PreferredFirst ==
    apc = "done" =>
        \A i \in ReqIdx :
            (HasEntry(i) /\ requests[i].preferredServers # <<>>) =>
                \A a, b \in 1..Len(pool) :
                    (TakenBy(i, b) > 0 /\ VisitedBefore(i, a, b)) => UsedUp(i, a)

\* two servers of the pool that the request keeps in one group
SameGroup(i, a, b) == Preferred(i, a) <=> Preferred(i, b)

\* a request draws from the later and larger of two servers other than home
\* that are in one group, and leaves the earlier and smaller one alone
C24_Witness ==
    /\ apc = "done"
    /\ Len(pool) = 2
    /\ ~pool[1].isHome
    /\ ~pool[2].isHome
    /\ \E i \in ReqIdx :
          /\ requests[i].preferredServers # <<>>
          /\ SameGroup(i, 1, 2)
          /\ PoolAtTurn(i)[1].availableRam > 0
          /\ PoolAtTurn(i)[1].availableRam < PoolAtTurn(i)[2].availableRam
          /\ TakenBy(i, 2) > 0
          /\ TakenBy(i, 1) = 0

\* a request draws from a preferred server that comes after a larger
\* non-preferred one in the pool, and leaves the non-preferred one alone
C24_WitnessPreferred ==
    /\ apc = "done"
    /\ Len(pool) = 2
    /\ \E i \in ReqIdx :
          /\ requests[i].preferredServers # <<>>
          /\ ~Preferred(i, 1)
          /\ Preferred(i, 2)
          /\ pool[1].availableRam > pool[2].availableRam
          /\ TakenBy(i, 2) > 0
          /\ TakenBy(i, 1) = 0
          /\ PoolAtTurn(i)[1].availableRam > 0

\* a request draws from a server other than home that comes after home in
\* the pool and is in home's group, and leaves home alone
C24_WitnessHomeLast ==
    /\ apc = "done"
    /\ Len(pool) = 2
    /\ pool[1].isHome
    /\ \E i \in ReqIdx :
          /\ requests[i].preferredServers # <<>>
          /\ SameGroup(i, 1, 2)
          /\ PoolAtTurn(i)[1].availableRam > PoolAtTurn(i)[2].availableRam
          /\ TakenBy(i, 2) > 0
          /\ TakenBy(i, 1) = 0

\* C24 as stated, over the pairs of servers other than home alone: inside a
\* group they are visited in pool order
C24_PoolOrderAwayFromHome ==
    apc = "done" =>
        \A i \in ReqIdx :
            (HasEntry(i) /\ requests[i].preferredServers # <<>>) =>
                \A a, b \in 1..Len(pool) :
                    (/\ TakenBy(i, b) > 0
                     /\ ~pool[a].isHome /\ ~pool[b].isHome
                     /\ SameGroup(i, a, b) /\ a < b)
                       => UsedUp(i, a)

\* ========================================================================
\* Module registry (core/module-registry.ts)
\* ========================================================================
ModuleNames == {"xp-farmer", "money-farmer"}
LifecycleStates == {"stopped", "starting", "running", "paused", "error"}
NoPid == 0           \* pid: undefined

\* PORT_ALLOCATION
ControlPortOf(name) == IF name = "xp-farmer" THEN 10 ELSE 11
StatusPortOf(name) == IF name = "xp-farmer" THEN 30 ELSE 31

ScriptPathOf(name) == IF name = "xp-farmer" THEN "/modules/xp-farmer.ts"
                      ELSE "/modules/money-farmer.ts"

\* module configurations handed to registerModule
ConfigChoices ==
    {[enabled |-> TRUE, minRamRequired |-> 4, optimalRamRequired |-> 256],
     [enabled |-> FALSE, minRamRequired |-> 0, optimalRamRequired |-> 8]}
ModulePriorities == {80, 90}

\* ---- registry.modules: a Record<string, RegisteredModule>, kept as the
\* ---- sequence of its entries in insertion order
HasModule(modules, name) == \E i \in 1..Len(modules) : modules[i].name = name

IndexOfModule(modules, name) == CHOOSE i \in 1..Len(modules) : modules[i].name = name

GetModule(modules, name) == modules[IndexOfModule(modules, name)]

\* registry.modules[name] = module
AppendModule(modules, name, module) == Append(modules, module)

PutModule(modules, name, module) ==
    IF HasModule(modules, name)
    THEN [modules EXCEPT ![IndexOfModule(modules, name)] = module]
    ELSE Append(modules, module)

\* delete registry.modules[name]
DeleteModule(modules, name) ==
    LET F[i \in 0..Len(modules)] ==
            IF i = 0 THEN <<>>
            ELSE IF modules[i].name = name THEN F[i - 1]
            ELSE Append(F[i - 1], modules[i])
    IN F[Len(modules)]

\* loadRegistry: the parsed file, or DEFAULT_REGISTRY's own modules table
\* when readState falls back to the default
loadRegistry(file, defaults) == IF file.exists THEN file.modules ELSE defaults

\* saveRegistry after the caller has changed the loaded table to `modules`.
\* wok: ns.write succeeds.  When the table was DEFAULT_REGISTRY's (no file),
\* the caller's change was made on that shared object and stays in memory
\* whether or not the write succeeds.
saveRegistry(file, defaults, modules, wok) ==
    [file |-> IF wok THEN [exists |-> TRUE, modules |-> modules] ELSE file,
     defaults |-> IF file.exists THEN defaults ELSE modules,
     ret |-> wok]

\* an operation's early return: nothing changed
Unchanged(file, defaults, result) ==
    [file |-> file, defaults |-> defaults, ret |-> result]

\* config.minRamRequired || 0
OrZero(n) == IF n = 0 THEN 0 ELSE n

registerModuleKeepingState(file, defaults, t, name, scriptPath, config, priority, controlPort, statusPort, wok) ==
    LET modules == loadRegistry(file, defaults)
        kept == IF HasModule(modules, name)
                THEN GetModule(modules, name)
                ELSE [status |-> "stopped", pid |-> NoPid]
        module == [name |-> name,
                   scriptPath |-> scriptPath,
                   config |-> config,
                   priority |-> priority,
                   status |-> kept.status,
                   pid |-> kept.pid,
                   controlPort |-> controlPort,
                   statusPort |-> statusPort,
                   lastStatusUpdate |-> t,
                   ramAllocation |-> [requested |-> OrZero(config.minRamRequired),
                                      allocated |-> 0,
                                      actual |-> 0]]
    IN saveRegistry(file, defaults, PutModule(modules, name, module), wok)

registerModule(file, defaults, t, name, scriptPath, config, priority, controlPort, statusPort, wok) ==
    LET modules == loadRegistry(file, defaults)
        module == [name |-> name,
                   scriptPath |-> scriptPath,
                   config |-> config,
                   priority |-> priority,
                   status |-> "stopped",
                   pid |-> NoPid,
                   controlPort |-> controlPort,
                   statusPort |-> statusPort,
                   lastStatusUpdate |-> t,
                   ramAllocation |-> [requested |-> OrZero(config.minRamRequired),
                                      allocated |-> 0,
                                      actual |-> 0]]
    IN saveRegistry(file, defaults, PutModule(modules, name, module), wok)

unregisterModule(file, defaults, name, wok) ==
    LET modules == loadRegistry(file, defaults)
    IN IF ~HasModule(modules, name) THEN Unchanged(file, defaults, FALSE)
       ELSE saveRegistry(file, defaults, DeleteModule(modules, name), wok)

\* clearRegistry: a fresh table with no modules is saved; nothing is loaded,
\* so DEFAULT_REGISTRY's table is not touched
clearRegistry(file, defaults, wok) ==
    [file |-> IF wok THEN [exists |-> TRUE, modules |-> <<>>] ELSE file,
     defaults |-> defaults,
     ret |-> wok]

\* the shared shape of the partial updates: fail when the module is not
\* registered, else change its record and stamp lastStatusUpdate
UpdateRecord(file, defaults, t, name, Change(_), wok) ==
    LET modules == loadRegistry(file, defaults)
    IN IF ~HasModule(modules, name) THEN Unchanged(file, defaults, FALSE)
       ELSE LET i == IndexOfModule(modules, name)
                changed == [Change(modules[i]) EXCEPT !.lastStatusUpdate = t]
            IN saveRegistry(file, defaults, [modules EXCEPT ![i] = changed], wok)

updateModuleStatus(file, defaults, t, name, status, wok) ==
    LET Change(m) == [m EXCEPT !.status = status]
    IN UpdateRecord(file, defaults, t, name, Change, wok)

updateModulePID(file, defaults, t, name, pid, wok) ==
    LET Change(m) == [m EXCEPT !.pid = pid]
    IN UpdateRecord(file, defaults, t, name, Change, wok)

updateModulePorts(file, defaults, t, name, controlPort, statusPort, wok) ==
    LET Change(m) == [m EXCEPT !.controlPort = controlPort,
                               !.statusPort = statusPort]
    IN UpdateRecord(file, defaults, t, name, Change, wok)

\* allocation: [field |-> "requested" | "allocated" | "actual", value |-> n],
\* one provided field per call
updateModuleAllocation(file, defaults, t, name, allocation, wok) ==
    LET Change(m) ==
            IF allocation.field = "requested"
            THEN [m EXCEPT !.ramAllocation.requested = allocation.value]
            ELSE IF allocation.field = "allocated"
            THEN [m EXCEPT !.ramAllocation.allocated = allocation.value]
            ELSE [m EXCEPT !.ramAllocation.actual = allocation.value]
    IN UpdateRecord(file, defaults, t, name, Change, wok)

getModuleStatus(file, defaults, name) ==
    LET modules == loadRegistry(file, defaults)
    IN IF HasModule(modules, name) THEN <<GetModule(modules, name)>> ELSE Null

getAllModules(file, defaults) == loadRegistry(file, defaults)

isModuleRegistered(file, defaults, name) == HasModule(loadRegistry(file, defaults), name)

\* the registry as every reader sees it
Registry == loadRegistry(registryFile, defaultRegistry)

\* ------------------------------------------------------------------------
\* Registry calls in any order (the registry's public API)
\* ------------------------------------------------------------------------
RegInit ==
    /\ DaemonIdle
    /\ NetIdle
    /\ pool = <<>> /\ requests = <<>> /\ allocations = <<>>
    /\ remainingPool = <<>> /\ apc = "idle"
    /\ SysIdle
    /\ registryFile = [exists |-> FALSE, modules |-> <<>>]
    /\ defaultRegistry = <<>>
    /\ now = 0
    /\ ret = FALSE
    /\ lastCall = [op |-> "none", name |-> "", replaced |-> FALSE]
    /\ calls = 0

\* bookkeeping shared by the registry calls
Called(op, name, replaced, r) ==
    /\ calls < MaxCalls
    /\ calls' = calls + 1
    /\ registryFile' = r.file
    /\ defaultRegistry' = r.defaults
    /\ ret' = r.ret
    /\ lastCall' = [op |-> op, name |-> name, replaced |-> replaced]
    /\ UNCHANGED <<now, allocVars, sysVars, daemonVars, netVars>>

RegisterModule ==
    \E name \in ModuleNames, config \in ConfigChoices,
       priority \in ModulePriorities, wok \in BOOLEAN :
        Called("registerModule", name,
               /\ HasModule(Registry, name)
               /\ GetModule(Registry, name).config # config,
               registerModule(registryFile, defaultRegistry, now, name,
                              ScriptPathOf(name), config, priority,
                              ControlPortOf(name), StatusPortOf(name), wok))

UnregisterModule ==
    \E name \in ModuleNames, wok \in BOOLEAN :
        Called("unregisterModule", name, FALSE,
               unregisterModule(registryFile, defaultRegistry, name, wok))

ClearRegistry ==
    \E wok \in BOOLEAN :
        Called("clearRegistry", "", FALSE,
               clearRegistry(registryFile, defaultRegistry, wok))

UpdateModuleStatus ==
    \E name \in ModuleNames, status \in LifecycleStates, wok \in BOOLEAN :
        Called("updateModuleStatus", name, FALSE,
               updateModuleStatus(registryFile, defaultRegistry, now, name, status, wok))

UpdateModulePID ==
    \E name \in ModuleNames, pid \in {NoPid, 1}, wok \in BOOLEAN :
        Called("updateModulePID", name, FALSE,
               updateModulePID(registryFile, defaultRegistry, now, name, pid, wok))

UpdateModulePorts ==
    \E name \in ModuleNames, wok \in BOOLEAN :
        Called("updateModulePorts", name, FALSE,
               updateModulePorts(registryFile, defaultRegistry, now, name, 12, 32, wok))

UpdateModuleAllocation ==
    \E name \in ModuleNames, field \in {"requested", "allocated", "actual"},
       wok \in BOOLEAN :
        Called("updateModuleAllocation", name, FALSE,
               updateModuleAllocation(registryFile, defaultRegistry, now, name,
                                      [field |-> field, value |-> 8], wok))

\* time passes between calls
AdvanceClock ==
    /\ now < MaxClock
    /\ now' = now + 1
    /\ UNCHANGED <<registryFile, defaultRegistry, ret, lastCall, calls,
                   allocVars, sysVars, daemonVars, netVars>>

RegNext ==
    \/ RegisterModule
    \/ UnregisterModule
    \/ ClearRegistry
    \/ UpdateModuleStatus
    \/ UpdateModulePID
    \/ UpdateModulePorts
    \/ UpdateModuleAllocation
    \/ AdvanceClock

RegSpec == RegInit /\ [][RegNext]_vars

\* C6: Idempotent registration: the registry never holds two records with the
\* same name; a registerModule call that succeeds leaves exactly one record
\* for its name, carrying that call's config, and leaves every other module's
\* record as it was.
C6_IdempotentRegistration ==
    [][/\ \A i, j \in 1..Len(Registry') :
             Registry'[i].name = Registry'[j].name => i = j
       /\ \A name \in ModuleNames, config \in ConfigChoices, priority \in ModulePriorities :
             (/\ calls' = calls + 1
              /\ ret'
              /\ lastCall'.op = "registerModule"
              /\ lastCall'.name = name
              /\ registryFile' = registerModule(registryFile, defaultRegistry, now, name,
                                     ScriptPathOf(name), config, priority,
                                     ControlPortOf(name), StatusPortOf(name), TRUE).file)
             => /\ Cardinality({i \in 1..Len(Registry') : Registry'[i].name = name}) = 1
                /\ GetModule(Registry', name).config = config
                /\ \A other \in ModuleNames \ {name} :
                      /\ HasModule(Registry', other) <=> HasModule(Registry, other)
                      /\ HasModule(Registry, other)
                            => GetModule(Registry', other) = GetModule(Registry, other)
      ]_vars

\* a module was registered again with a different config while another
\* module is registered
C6_Witness ==
    /\ lastCall.op = "registerModule"
    /\ lastCall.replaced
    /\ ret
    /\ Len(Registry) = 2

\* ========================================================================
\* Daemon control loop (daemon.ts), the mailboxes (ns-utils) and the module
\* processes (modules/xp-farmer.ts, runDaemonMode)
\* ========================================================================
\* DEFAULT_CONFIG, in milliseconds
UpdateInterval == 10000
ModuleStatusTimeout == 30000
NetworkScanInterval == 60000

\* Date.now() when main() is launched: a real clock, which lies further from
\* zero than any interval of the configuration
ClockAtLaunch == NetworkScanInterval + UpdateInterval

\* BUILTIN_MODULES[0]
BuiltinName == "xp-farmer"
BuiltinConfig == [enabled |-> TRUE, minRamRequired |-> 4, optimalRamRequired |-> 256]
BuiltinPriority == 80

\* ---- mailboxes -----------------------------------------------------------
\* a send that gives up when the port is full
sendMessageUnlessFull(q, t, message) ==
    IF Len(q) >= PortCapacity THEN q
    ELSE Append(q, [timestamp |-> t, data |-> message])

\* sendMessage: the message goes into an envelope; a full port is cleared
\* before the write
sendMessage(q, t, message) ==
    LET messageData == [timestamp |-> t, data |-> message]
    IN IF Len(q) >= PortCapacity THEN <<messageData>> ELSE Append(q, messageData)

\* receiveMessage, applied until the port is empty: the envelopes' contents
RECURSIVE receiveAll(_)
receiveAll(q) ==
    IF q = <<>> THEN <<>> ELSE <<Head(q).data>> \o receiveAll(Tail(q))

\* receiveMessage: null on an empty port, else the content of the envelope
\* read from the head of the port
receiveNewest(q) ==
    IF q = <<>> THEN [message |-> Null, port |-> q]
    ELSE [message |-> <<q[Len(q)].data>>, port |-> SubSeq(q, 1, Len(q) - 1)]

receiveMessage(q) ==
    IF q = <<>> THEN [message |-> Null, port |-> q]
    ELSE [message |-> <<Head(q).data>>, port |-> Tail(q)]

hasMessages(q) == q # <<>>

sendControlMessage(pts, controlPort, t, message) ==
    [pts EXCEPT ![controlPort] = sendMessage(@, t, message)]

collectStatusMessages(pts, statusPort) == receiveAll(pts[statusPort])

\* sendStatusUpdate's message
StatusUpdate(isActive) ==
    [type |-> "status_update", data |-> [isActive |-> isActive]]

\* ---- module process: one iteration of runDaemonMode's loop ---------------
\* handleControlMessage, applied to the drained control messages in order
RECURSIVE HandleControlMessages(_, _)
HandleControlMessages(isActive, messages) ==
    IF messages = <<>> THEN isActive
    ELSE LET type == Head(messages).type
             next == IF type \in {"start", "resume"} THEN TRUE
                     ELSE IF type \in {"stop", "pause"} THEN FALSE
                     ELSE isActive
         IN HandleControlMessages(next, Tail(messages))

\* ---- process table (ns.exec / ns.kill / ns.isRunning) --------------------
Kill(ps, pid) ==
    IF pid \in 1..Len(ps) THEN [ps EXCEPT ![pid].alive = FALSE] ELSE ps

IsRunning(ps, pid) == pid \in 1..Len(ps) /\ ps[pid].alive

\* ---- getModulesByPriority ------------------------------------------------
getModulesTiesReversed(file, defaults) ==
    LET modules == loadRegistry(file, defaults)
    IN StableSort([i \in 1..Len(modules) |-> modules[Len(modules) + 1 - i]],
                  ComparePriority)

getModulesByPriority(file, defaults) ==
    StableSort(loadRegistry(file, defaults), ComparePriority)

\* ---- collectModuleStatuses -----------------------------------------------
\* const newStatus = message.data.isActive ? 'running' : 'paused'
NewStatusRunning(message) == "running"

NewStatus(message) == IF message.data.isActive THEN "running" ELSE "paused"

\* the loop over the drained messages of one module
RECURSIVE ApplyStatusMessages(_, _, _, _, _)
ApplyStatusMessages(file, defaults, t, name, messages) ==
    IF messages = <<>> THEN Unchanged(file, defaults, TRUE)
    ELSE LET r == updateModuleStatus(file, defaults, t, name,
                                     NewStatus(Head(messages)), TRUE)
         IN ApplyStatusMessages(r.file, r.defaults, t, name, Tail(messages))

\* the timeout check of one module
TimedOutWhateverState(t, lastStatusUpdate, status) ==
    t - lastStatusUpdate > ModuleStatusTimeout

TimedOut(t, lastStatusUpdate, status) ==
    /\ t - lastStatusUpdate > ModuleStatusTimeout
    /\ status # "error"
    /\ status # "stopped"

\* what the timeout check does to a module found silent
DropTimedOut(file, defaults, t, name) == unregisterModule(file, defaults, name, TRUE)

MarkTimedOut(file, defaults, t, name) == updateModuleStatus(file, defaults, t, name, "error", TRUE)

\* the loop over the snapshot getAllModules returned, from entry k on
RECURSIVE CollectLoop(_, _, _, _, _, _)
CollectLoop(snapshot, k, file, defaults, pts, t) ==
    IF k > Len(snapshot) THEN [file |-> file, defaults |-> defaults, ports |-> pts]
    ELSE LET moduleData == snapshot[k]
         IN IF moduleData.statusPort = 0
            THEN CollectLoop(snapshot, k + 1, file, defaults, pts, t)
            ELSE LET messages == collectStatusMessages(pts, moduleData.statusPort)
                     a == ApplyStatusMessages(file, defaults, t, moduleData.name, messages)
                     lastStatusUpdate == IF messages # <<>> THEN t
                                         ELSE moduleData.lastStatusUpdate
                     b == IF TimedOut(t, lastStatusUpdate, moduleData.status)
                          THEN MarkTimedOut(a.file, a.defaults, t, moduleData.name)
                          ELSE a
                 IN CollectLoop(snapshot, k + 1, b.file, b.defaults,
                                [pts EXCEPT ![moduleData.statusPort] = <<>>], t)

collectModuleStatuses(file, defaults, pts, t) ==
    CollectLoop(getAllModules(file, defaults), 1, file, defaults, pts, t)

\* ---- recoverFailedModules ------------------------------------------------
\* whether the loop body starts the module of snapshot entry moduleData
NeedsRecoveryOnlyKnownPid(moduleData, ps) ==
    /\ moduleData.status = "error"
    /\ moduleData.config.enabled
    /\ moduleData.pid # NoPid
    /\ ~IsRunning(ps, moduleData.pid)

NeedsRecovery(moduleData, ps) ==
    /\ moduleData.status = "error"
    /\ moduleData.config.enabled
    /\ ~(moduleData.pid # NoPid /\ IsRunning(ps, moduleData.pid))

\* ---- the main loop's catch block -----------------------------------------
\* where main() stands after a step of the loop has thrown
Uncaught == "exited"

OnException == "caught"

\* ------------------------------------------------------------------------
\* The registry file the daemon finds: absent, or holding a module the
\* operator registered earlier.
\* ------------------------------------------------------------------------
InitialRegistries ==
    {[exists |-> FALSE, modules |-> <<>>]} \cup
    {registerModule([exists |-> FALSE, modules |-> <<>>], <<>>, 0, "money-farmer",
                    ScriptPathOf("money-farmer"), config, 90,
                    ControlPortOf("money-farmer"), StatusPortOf("money-farmer"),
                    TRUE).file : config \in ConfigChoices}

\* ---- main(): start-up ----------------------------------------------------
\* startInitialModules: const modules = getModulesByPriority(ns)
InitialModulesUnsorted(file, defaults) == getAllModules(file, defaults)

InitialModules(file, defaults) == getModulesByPriority(file, defaults)

\* registerBuiltInModules, then startInitialModules takes its snapshot
Boot ==
    /\ dpc = "boot"
    /\ LET r1 == IF ~isModuleRegistered(registryFile, defaultRegistry, BuiltinName)
                 THEN registerModule(registryFile, defaultRegistry, now, BuiltinName,
                                     ScriptPathOf(BuiltinName), BuiltinConfig,
                                     BuiltinPriority, ControlPortOf(BuiltinName),
                                     StatusPortOf(BuiltinName), TRUE)
                 ELSE Unchanged(registryFile, defaultRegistry, TRUE)
           r2 == updateModulePorts(r1.file, r1.defaults, now, BuiltinName,
                                   ControlPortOf(BuiltinName),
                                   StatusPortOf(BuiltinName), TRUE)
       IN /\ registryFile' = r2.file
          /\ defaultRegistry' = r2.defaults
          /\ queue' = InitialModules(r2.file, r2.defaults)
    /\ dpc' = "initial"
    /\ UNCHANGED <<now, ret, lastCall, calls, starting, ports, procs,
                   enableAutoRecovery, moduleRestarts, errorLog, failedStarts, allocVars, sysVars, netVars>>

\* startModule from the launch on, up to its await after the launch: launch
\* with the moduleData read at the start of the call, record pid and state.
\* launchOk: ns.exec returned a pid; restoredActive: the isActive the module's
\* initializeState yields, false for a fresh state and true when it restores
\* the state file an earlier run of the module left while active.
LaunchModule(name, caller, controlPort, statusPort) ==
    \E launchOk \in BOOLEAN, restoredActive \in BOOLEAN :
        \E pid \in {IF launchOk /\ Len(procs) < MaxPid THEN Len(procs) + 1 ELSE 0} :
            IF pid > 0
            THEN LET r1 == updateModulePID(registryFile, defaultRegistry,
                                           now, name, pid, TRUE)
                     r2 == updateModuleStatus(r1.file, r1.defaults, now,
                                              name, "starting", TRUE)
                 IN /\ procs' = Append(procs,
                                   [module |-> name,
                                    controlPort |-> controlPort,
                                    statusPort |-> statusPort,
                                    alive |-> TRUE,
                                    isActive |-> restoredActive])
                    /\ registryFile' = r2.file
                    /\ defaultRegistry' = r2.defaults
                    /\ dpc' = "launched"
                    /\ starting' = [caller |-> caller, name |-> name,
                                    controlPort |-> controlPort]
                    /\ failedStarts' = failedStarts \ {name}
            ELSE LET r == updateModuleStatus(registryFile, defaultRegistry,
                                             now, name, "error", TRUE)
                 IN /\ procs' = procs
                    /\ registryFile' = r.file
                    /\ defaultRegistry' = r.defaults
                    /\ dpc' = "stagger"
                    /\ starting' = [caller |-> caller, name |-> name,
                                    controlPort |-> 0]
                    /\ failedStarts' = failedStarts \cup {name}

\* startModule up to its first await: look the module up; with a pid on
\* record, kill it and wait (sleep(500)) before the launch; without one,
\* launch at once
StartModule(name, caller) ==
    \E found \in {getModuleStatus(registryFile, defaultRegistry, name)} :
        IF found = Null
        THEN /\ dpc' = "stagger"
             /\ starting' = [caller |-> caller, name |-> name, controlPort |-> 0]
             /\ UNCHANGED <<registryFile, defaultRegistry, procs, failedStarts>>
        ELSE IF found[1].pid # NoPid
        THEN /\ procs' = Kill(procs, found[1].pid)
             /\ dpc' = "killed"
             /\ starting' = [caller |-> caller, name |-> name,
                             controlPort |-> found[1].controlPort,
                             statusPort |-> found[1].statusPort]
             /\ UNCHANGED <<registryFile, defaultRegistry, failedStarts>>
        ELSE LaunchModule(name, caller, found[1].controlPort, found[1].statusPort)

\* startModule after its sleep(500): it goes on with the moduleData it read
\* before the sleep
LaunchAfterKill ==
    /\ dpc = "killed"
    /\ LaunchModule(starting.name, starting.caller, starting.controlPort,
                    starting.statusPort)
    /\ UNCHANGED <<now, ret, lastCall, calls, queue, ports, enableAutoRecovery,
                   moduleRestarts, errorLog, allocVars, sysVars, netVars>>

\* startInitialModules: one turn of its loop
StartInitialStep ==
    /\ dpc = "initial"
    /\ IF queue = <<>>
       THEN /\ dpc' = "scan"
            /\ UNCHANGED <<queue, starting, registryFile, defaultRegistry, procs,
                           failedStarts>>
       ELSE /\ queue' = Tail(queue)
            /\ IF Head(queue).config.enabled
               THEN StartModule(Head(queue).name, "initial")
               ELSE UNCHANGED <<dpc, starting, registryFile, defaultRegistry, procs,
                                failedStarts>>
    /\ UNCHANGED <<now, ret, lastCall, calls, ports, enableAutoRecovery,
                   moduleRestarts, errorLog, allocVars, sysVars, netVars>>

\* if (success) state.statistics.moduleRestarts++, in recoverFailedModules only
CountEveryStart(count, caller) == count + 1

CountRestart(count, caller) == IF caller = "recover" THEN count + 1 ELSE count

\* startModule after its sleep(1000): send the start message and return true;
\* recoverFailedModules then counts the restart
SendStart ==
    /\ dpc = "launched"
    /\ ports' = sendControlMessage(ports, starting.controlPort, now,
                                    [type |-> "start"])
    /\ moduleRestarts' = CountRestart(moduleRestarts, starting.caller)
    /\ dpc' = "stagger"
    /\ UNCHANGED <<registryFile, defaultRegistry, now, ret, lastCall, calls, queue,
                   starting, procs, enableAutoRecovery, errorLog, failedStarts, allocVars, sysVars, netVars>>

\* the sleep(2000) after a startModule call is over
StaggerDone ==
    /\ dpc = "stagger"
    /\ dpc' = starting.caller
    /\ starting' = NoCall
    /\ UNCHANGED <<registryFile, defaultRegistry, now, ret, lastCall, calls, queue,
                   ports, procs, enableAutoRecovery, moduleRestarts, errorLog, failedStarts,
                   allocVars, sysVars, netVars>>

\* ---- main(): one iteration of the loop -----------------------------------
\* if (config.enableAutoRecovery) recoverFailedModules takes its snapshot
RecoverBegin ==
    /\ dpc = "recoverBegin"
    /\ IF enableAutoRecovery
       THEN /\ queue' = getAllModules(registryFile, defaultRegistry)
            /\ dpc' = "recover"
       ELSE /\ queue' = <<>>
            /\ dpc' = "allocate"
    /\ UNCHANGED <<registryFile, defaultRegistry, now, ret, lastCall, calls,
                   starting, ports, procs, enableAutoRecovery, moduleRestarts,
                   errorLog, failedStarts, allocVars, sysVars, netVars>>

\* recoverFailedModules: one turn of its loop
RecoverStep ==
    /\ dpc = "recover"
    /\ IF queue = <<>>
       THEN /\ dpc' = "allocate"
            /\ UNCHANGED <<queue, starting, registryFile, defaultRegistry, procs,
                           failedStarts>>
       ELSE /\ queue' = Tail(queue)
            /\ IF NeedsRecovery(Head(queue), procs)
               THEN StartModule(Head(queue).name, "recover")
               ELSE UNCHANGED <<dpc, starting, registryFile, defaultRegistry, procs,
                                failedStarts>>
    /\ UNCHANGED <<now, ret, lastCall, calls, ports, enableAutoRecovery,
                   moduleRestarts, errorLog, allocVars, sysVars, netVars>>

\* updateDaemonStatistics and persistDaemonState
UpdateStatistics ==
    /\ dpc = "stats"
    /\ dpc' = "sleep"
    /\ UNCHANGED <<registryFile, defaultRegistry, now, ret, lastCall, calls, queue,
                   starting, ports, procs, enableAutoRecovery, moduleRestarts,
                   errorLog, failedStarts, allocVars, sysVars, netVars>>

\* await ns.sleep(config.updateInterval) at the end of the try block
Sleep ==
    /\ dpc = "sleep"
    /\ now < ClockAtLaunch + MaxTicks * UpdateInterval
    /\ now' = now + UpdateInterval
    /\ dpc' = "scan"
    /\ UNCHANGED <<registryFile, defaultRegistry, ret, lastCall, calls, queue,
                   starting, ports, procs, enableAutoRecovery, moduleRestarts,
                   errorLog, failedStarts, allocVars, sysVars, netVars>>

\* a step of the iteration throws: control passes to the catch block, which
\* logs the error
Throw ==
    /\ dpc \in {"scan", "collect", "recoverBegin", "recover", "allocate", "stats"}
    /\ errorLog < MaxErrors
    /\ errorLog' = errorLog + 1
    /\ dpc' = OnException
    /\ queue' = <<>>
    /\ UNCHANGED <<registryFile, defaultRegistry, now, ret, lastCall, calls,
                   starting, ports, procs, enableAutoRecovery, moduleRestarts,
                   failedStarts, allocVars, sysVars, netVars>>

\* await ns.sleep(config.updateInterval) in the catch block
CatchSleep ==
    /\ dpc = "caught"
    /\ now < ClockAtLaunch + MaxTicks * UpdateInterval
    /\ now' = now + UpdateInterval
    /\ dpc' = "scan"
    /\ UNCHANGED <<registryFile, defaultRegistry, ret, lastCall, calls, queue,
                   starting, ports, procs, enableAutoRecovery, moduleRestarts,
                   errorLog, failedStarts, allocVars, sysVars, netVars>>

\* ---- environment: runs only while the daemon awaits ----------------------
Awaiting == dpc \in {"killed", "launched", "stagger", "sleep", "caught", "stopping"}

\* a module process runs one iteration of its loop: drain the control port,
\* then send a status update
ModuleStep ==
    /\ Awaiting
    /\ \E pid \in 1..Len(procs) :
          /\ procs[pid].alive
          /\ LET p == procs[pid]
                 isActive == HandleControlMessages(p.isActive,
                                                   receiveAll(ports[p.controlPort]))
             IN /\ procs' = [procs EXCEPT ![pid].isActive = isActive]
                /\ ports' = [ports EXCEPT
                                ![p.controlPort] = <<>>,
                                ![p.statusPort] = sendMessage(@, now, StatusUpdate(isActive))]
    /\ UNCHANGED <<registryFile, defaultRegistry, now, ret, lastCall, calls, dpc,
                   queue, starting, enableAutoRecovery, moduleRestarts, errorLog, failedStarts,
                   allocVars, sysVars, netVars>>

\* a module process crashes or is killed from outside
ProcessDies ==
    /\ Awaiting
    /\ \E pid \in 1..Len(procs) :
          /\ procs[pid].alive
          /\ procs' = Kill(procs, pid)
    /\ UNCHANGED <<registryFile, defaultRegistry, now, ret, lastCall, calls, dpc,
                   queue, starting, ports, enableAutoRecovery, moduleRestarts,
                   errorLog, failedStarts, allocVars, sysVars, netVars>>

\* the operator (another script) registers or re-registers a module
UserCalled(op, name, replaced, r) ==
    /\ Awaiting
    /\ calls < MaxUserCalls
    /\ calls' = calls + 1
    /\ registryFile' = r.file
    /\ defaultRegistry' = defaultRegistry
    /\ ret' = r.ret
    /\ lastCall' = [op |-> op, name |-> name, replaced |-> replaced]
    /\ UNCHANGED <<now, daemonVars, allocVars, sysVars, netVars>>

UserRegisters ==
    \E name \in ModuleNames, config \in ConfigChoices :
        UserCalled("registerModule", name,
                   /\ HasModule(Registry, name)
                   /\ GetModule(Registry, name).config # config,
                   registerModule(registryFile, <<>>, now, name,
                                  ScriptPathOf(name), config, 90,
                                  ControlPortOf(name), StatusPortOf(name), TRUE))

UserUnregisters ==
    \E name \in ModuleNames :
        UserCalled("unregisterModule", name, FALSE,
                   unregisterModule(registryFile, <<>>, name, TRUE))

\* ========================================================================
\* Properties of the daemon
\* ========================================================================
StatusOf(modules, name) == GetModule(modules, name).status

\* main() stands inside its while (true) loop
InMainLoop ==
    \/ dpc \in {"scan", "collect", "recoverBegin", "recover", "allocate",
                "stats", "sleep", "caught"}
    \/ dpc \in {"killed", "launched", "stagger"} /\ starting.caller = "recover"

\* the edges the lifecycle diagram draws
LifecycleEdges ==
    {<<"stopped", "starting">>, <<"starting", "running">>,
     <<"running", "paused">>, <<"paused", "running">>,
     <<"error", "starting">>}

AllowedEdge(from, to) ==
    \/ from = to
    \/ to = "error"
    \/ <<from, to>> \in LifecycleEdges

\* C7: over every step of the daemon, the lifecycle state of a registered
\* module changes only along stopped->starting, starting->running,
\* running<->paused, any->error and error->starting.
C7_OnlyLifecycleEdges ==
    [][\A name \in ModuleNames :
          (HasModule(Registry, name) /\ HasModule(Registry', name))
              => AllowedEdge(StatusOf(Registry, name), StatusOf(Registry', name))]_vars

\* C8: in a status-collection pass, a module whose status port was empty and
\* whose lastStatusUpdate is older than moduleStatusTimeout becomes error
\* unless it is stopped or error already; the record of a silent module that
\* is stopped or error is left as it is, and a stopped or error module that
\* did report ends running or paused, never error; so after the pass no
\* module outside stopped and error has an update older than the timeout.
C8_TimeoutDetection ==
    [][(dpc = "collect" /\ dpc' = "recoverBegin") =>
          /\ \A name \in ModuleNames :
                HasModule(Registry, name) =>
                    LET moduleData == GetModule(Registry, name)
                        after == GetModule(Registry', name)
                        silent == ports[moduleData.statusPort] = <<>>
                        old == now - moduleData.lastStatusUpdate > ModuleStatusTimeout
                        exempt == moduleData.status \in {"stopped", "error"}
                    IN /\ HasModule(Registry', name)
                       /\ (silent /\ old /\ ~exempt) => after.status = "error"
                       /\ (silent /\ exempt) => after = moduleData
                       /\ (~silent /\ exempt) => after.status \in {"running", "paused"}
          /\ \A k \in 1..Len(Registry') :
                Registry'[k].status \notin {"stopped", "error"}
                    => now - Registry'[k].lastStatusUpdate <= ModuleStatusTimeout]_vars

\* a pass has just marked a silent module
C8_Witness ==
    /\ dpc = "recoverBegin"
    /\ now > ClockAtLaunch + ModuleStatusTimeout
    /\ \E k \in 1..Len(Registry) :
          /\ Registry[k].status = "error"
          /\ Registry[k].lastStatusUpdate = now
    /\ \E k \in 1..Len(Registry) :
          /\ Registry[k].status = "stopped"
          /\ now - Registry[k].lastStatusUpdate > ModuleStatusTimeout

\* C10: once main() is inside its loop it stays there: a step that throws is
\* caught and logged, and from the catch block the loop sleeps one
\* updateInterval and goes on with the next iteration.
C10_LoopNeverTerminates ==
    [][/\ InMainLoop => InMainLoop'
       /\ (errorLog' # errorLog) => (errorLog' = errorLog + 1 /\ dpc' = "caught")
       /\ (dpc = "caught" /\ dpc' # dpc)
             => (dpc' = "scan" /\ now' = now + UpdateInterval)]_vars

\* an iteration threw, and the loop is at work in a later iteration
C10_Witness ==
    /\ errorLog > 0
    /\ dpc = "collect"
    /\ now > ClockAtLaunch

\* ------------------------------------------------------------------------
\* Auto-recovery
\* ------------------------------------------------------------------------
\* the step is a turn of the recovery loop for snapshot entry moduleData, and
\* it calls startModule for that module
AttemptsStart(moduleData) ==
    /\ dpc' \in {"killed", "launched", "stagger"}
    /\ starting'.caller = "recover"
    /\ starting'.name = moduleData.name

\* C9 as stated: with enableAutoRecovery, every module in error whose recorded
\* process is not running gets a start attempt in each recovery pass.
C9_EveryFailedModuleRestarted ==
    [][(dpc = "recover" /\ queue # <<>>
            /\ Head(queue).status = "error"
            /\ ~IsRunning(procs, Head(queue).pid))
          => AttemptsStart(Head(queue))]_vars

\* C9, amended: with enableAutoRecovery each recovery pass takes every
\* registered module in turn, and every enabled module in error whose recorded
\* process is not running gets a start attempt; when the launch succeeds the
\* module is in state starting with a new, live process handle; a module
\* whose configuration is disabled is not restarted; with enableAutoRecovery
\* false the loop launches nothing.
C9_EnabledFailedModuleRestarted ==
    [][/\ (dpc = "recoverBegin" /\ dpc' # dpc) =>
             IF enableAutoRecovery
             THEN dpc' = "recover" /\ queue' = Registry
             ELSE dpc' = "allocate"
       /\ (dpc = "recover" /\ queue # <<>>) =>
             LET moduleData == Head(queue)
             IN /\ queue' = Tail(queue)
                /\ (/\ moduleData.status = "error"
                    /\ moduleData.config.enabled
                    /\ ~IsRunning(procs, moduleData.pid)) => AttemptsStart(moduleData)
                /\ ~moduleData.config.enabled => (dpc' = dpc /\ procs' = procs)
                /\ dpc' = "killed" =>
                      /\ moduleData.pid # NoPid
                      /\ procs' = Kill(procs, moduleData.pid)
                      /\ Registry' = Registry
       /\ (dpc \in {"recover", "killed"} /\ dpc' = "launched"
              /\ starting'.caller = "recover") =>
             /\ Len(procs') = Len(procs) + 1
             /\ procs'[Len(procs')].alive
             /\ procs'[Len(procs')].module = starting'.name
             /\ HasModule(Registry, starting'.name) =>
                   /\ StatusOf(Registry', starting'.name) = "starting"
                   /\ GetModule(Registry', starting'.name).pid = Len(procs')
       /\ (~enableAutoRecovery /\ Len(procs') > Len(procs)) => dpc = "initial"]_vars

\* a module that had failed has been launched again by a recovery pass
C9_Witness ==
    /\ enableAutoRecovery
    /\ dpc = "launched"
    /\ starting.caller = "recover"
    /\ HasModule(Registry, starting.name)
    /\ StatusOf(Registry, starting.name) = "starting"
    /\ GetModule(Registry, starting.name).pid = Len(procs)
    /\ Len(procs) > 1
    /\ ~procs[1].alive

\* ========================================================================
\* The mailbox on its own: any script sends to, reads from and drains the
\* ports (ns-utils sendMessage, receiveMessage, hasMessages,
\* collectStatusMessages)
\* ========================================================================
MaxMessages == 3

MessageTypes == {"start", "status_update"}

MailboxInit ==
    /\ DaemonIdle
    /\ NetIdle
    /\ registryFile = [exists |-> FALSE, modules |-> <<>>]
    /\ defaultRegistry = <<>>
    /\ now = 0
    /\ ret = FALSE
    /\ lastCall = [op |-> "none", port |-> 0, message |-> <<>>, sent |-> 0]
    /\ calls = 0
    /\ pool = <<>> /\ requests = <<>> /\ allocations = <<>>
    /\ remainingPool = <<>> /\ apc = "idle"
    /\ SysIdle

\* bookkeeping shared by the mailbox calls: message is the message sent or
\* the messages received, sent the number of messages sent so far
MailboxCalled(op, port, message, r) ==
    /\ calls < MaxMessages
    /\ calls' = calls + 1
    /\ lastCall' = [op |-> op, port |-> port, message |-> message,
                    sent |-> IF op = "sendMessage" THEN lastCall.sent + 1
                             ELSE lastCall.sent]
    /\ ret' = r
    /\ UNCHANGED <<registryFile, defaultRegistry, now, allocVars, sysVars, dpc, queue,
                   starting, procs, enableAutoRecovery, moduleRestarts, errorLog, failedStarts,
                   netVars>>

\* sendMessage(ns, port, message); the messages are numbered as they are sent
SendMessage ==
    \E port \in PortNumbers, type \in MessageTypes :
        LET message == [type |-> type, seq |-> lastCall.sent + 1]
        IN /\ ports' = [ports EXCEPT ![port] = sendMessage(@, now, message)]
           /\ MailboxCalled("sendMessage", port, message, TRUE)

\* receiveMessage(ns, port)
ReceiveMessage ==
    \E port \in PortNumbers :
        LET r == receiveMessage(ports[port])
        IN /\ ports' = [ports EXCEPT ![port] = r.port]
           /\ MailboxCalled("receiveMessage", port, r.message, r.message # Null)

\* hasMessages(ns, port)
HasMessages ==
    \E port \in PortNumbers :
        /\ ports' = ports
        /\ MailboxCalled("hasMessages", port, <<>>, hasMessages(ports[port]))

\* collectStatusMessages(ns, statusPort)
CollectStatusMessages ==
    \E port \in PortNumbers :
        /\ ports' = [ports EXCEPT ![port] = <<>>]
        /\ MailboxCalled("collectStatusMessages", port,
                         collectStatusMessages(ports, port), TRUE)

MailboxNext ==
    \/ SendMessage
    \/ ReceiveMessage
    \/ HasMessages
    \/ CollectStatusMessages

MailboxSpec == MailboxInit /\ [][MailboxNext]_vars

Last(q) == q[Len(q)]

\* C11: a port never holds more than PortCapacity messages; after a send the
\* message just sent is the newest one in the port; a send that finds the port
\* full leaves exactly the new message, any other send keeps what was queued;
\* a send touches no other port; hasMessages answers true for a port that
\* holds a message, and a port that holds one keeps holding one until a
\* receive or a drain empties it.
C11_OverwriteOnFull ==
    [][\A port \in PortNumbers :
          /\ Len(ports'[port]) <= PortCapacity
          /\ (lastCall'.op = "sendMessage" /\ lastCall'.port = port /\ calls' # calls) =>
                /\ ret'
                /\ Last(ports'[port]).data = lastCall'.message
                /\ IF Len(ports[port]) >= PortCapacity
                   THEN Len(ports'[port]) = 1
                   ELSE SubSeq(ports'[port], 1, Len(ports[port])) = ports[port]
          /\ (lastCall'.op = "sendMessage" /\ lastCall'.port # port)
                => ports'[port] = ports[port]
          /\ (lastCall'.op = "hasMessages" /\ lastCall'.port = port /\ calls' # calls)
                => (ret' <=> ports[port] # <<>>)
          /\ (ports[port] # <<>> /\ ports'[port] = <<>>)
                => (/\ lastCall'.op \in {"receiveMessage", "collectStatusMessages"}
                    /\ lastCall'.port = port)]_vars

\* three sends to one port without a read in between: the port holds the third
C11_Witness ==
    /\ calls = 3
    /\ lastCall.op = "sendMessage"
    /\ lastCall.sent = 3
    /\ \E port \in PortNumbers :
          /\ Len(ports[port]) = PortCapacity
          /\ Last(ports[port]).data.seq = 3
          /\ \A other \in PortNumbers \ {port} : ports[other] = <<>>

\* ========================================================================
\* collectStatusMessages (ns-utils), one turn of its while loop at a time.
\* The call is synchronous: no other script runs between its steps.
\* ========================================================================
\* the most messages waiting on a status port when the call is made
MaxPending == 3

StatusPorts == {StatusPortOf(name) : name \in ModuleNames}

\* what senders can have left on a port: envelopes written by sendMessage,
\* numbered in the order in which they were sent
PendingChoices ==
    UNION {[1..n -> [timestamp : {0},
                     data : [type : MessageTypes, seq : 1..MaxPending]]]
              : n \in 0..MaxPending}

Numbered(q) == \A k \in 1..Len(q) : q[k].data.seq = k

DrainInit ==
    /\ NetIdle
    /\ dpc = "off"
    /\ queue = <<>>
    /\ starting = NoCall
    /\ ports \in [PortNumbers -> {q \in PendingChoices : Numbered(q)}]
    /\ \A port \in PortNumbers \ StatusPorts : ports[port] = <<>>
    /\ procs = <<>>
    /\ enableAutoRecovery = FALSE
    /\ moduleRestarts = 0
    /\ errorLog = 0
    /\ failedStarts = {}
    /\ registryFile = [exists |-> FALSE, modules |-> <<>>]
    /\ defaultRegistry = <<>>
    /\ now = 0
    /\ ret = FALSE
    /\ lastCall = [op |-> "none", port |-> 0, messages |-> <<>>, pending |-> <<>>]
    /\ calls = 0
    /\ pool = <<>> /\ requests = <<>> /\ allocations = <<>>
    /\ remainingPool = <<>> /\ apc = "idle"
    /\ SysIdle

DrainUnchanged ==
    UNCHANGED <<registryFile, defaultRegistry, now, calls, allocVars, sysVars, dpc, queue,
                starting, procs, enableAutoRecovery, moduleRestarts, errorLog, failedStarts,
                netVars>>

\* collectStatusMessages(ns, statusPort): const messages = []
CollectCall ==
    \E statusPort \in StatusPorts :
        /\ lastCall.op = "none"
        /\ lastCall' = [op |-> "test", port |-> statusPort, messages |-> <<>>,
                        pending |-> ports[statusPort]]
        /\ UNCHANGED <<ports, ret>>
        /\ DrainUnchanged

\* while (hasMessages(ns, statusPort))
CollectTest ==
    /\ lastCall.op = "test"
    /\ lastCall' = [lastCall EXCEPT
                      !.op = IF hasMessages(ports[lastCall.port]) THEN "read"
                             ELSE "return"]
    /\ UNCHANGED <<ports, ret>>
    /\ DrainUnchanged

\* const message = receiveMessage(ns, statusPort);
\* if (message !== null) messages.push(message)
CollectRead ==
    /\ lastCall.op = "read"
    /\ LET r == receiveMessage(ports[lastCall.port])
       IN /\ ports' = [ports EXCEPT ![lastCall.port] = r.port]
          /\ lastCall' = [lastCall EXCEPT
                            !.op = "test",
                            !.messages = IF r.message # Null THEN @ \o r.message
                                         ELSE @]
    /\ UNCHANGED ret
    /\ DrainUnchanged

\* return messages
CollectReturn ==
    /\ lastCall.op = "return"
    /\ lastCall' = [lastCall EXCEPT !.op = "returned"]
    /\ ret' = TRUE
    /\ UNCHANGED ports
    /\ DrainUnchanged

DrainNext ==
    \/ CollectCall
    \/ CollectTest
    \/ CollectRead
    \/ CollectReturn

\* the loop is synchronous code: once called it runs to its return
DrainSpec == DrainInit /\ [][DrainNext]_vars /\ WF_vars(DrainNext)

\* C30: Non-blocking drain: collectStatusMessages returns; what it returns is
\* the content of every message that was waiting on the port, oldest first;
\* the port is empty afterwards and no other port is touched; called on an
\* empty port it returns the empty list.
C30_DrainTerminates ==
    /\ <>(lastCall.op = "returned")
    /\ [](lastCall.op = "returned" =>
            /\ ret
            /\ Len(lastCall.messages) = Len(lastCall.pending)
            /\ \A k \in 1..Len(lastCall.pending) :
                  lastCall.messages[k] = lastCall.pending[k].data
            /\ ports[lastCall.port] = <<>>
            /\ (lastCall.pending = <<>> => lastCall.messages = <<>>))
    /\ [][\A port \in PortNumbers :
             ports'[port] # ports[port] =>
                /\ port = lastCall.port
                /\ ports[port] = <<ports[port][1]>> \o ports'[port]]_vars

\* a drain of a port that held MaxPending messages has returned them
C30_Witness ==
    /\ lastCall.op = "returned"
    /\ Len(lastCall.pending) = MaxPending
    /\ Len(lastCall.messages) = MaxPending
    /\ lastCall.messages[1].seq = 1
    /\ lastCall.messages[MaxPending].seq = MaxPending
    /\ \E port \in StatusPorts \ {lastCall.port} : ports[port] # <<>>

\* ========================================================================
\* Topology scans: scanEntireNetwork (core/network-manager.ts) and
\* scanNetwork (ns-utils)
\* ========================================================================
MaxHosts == 3

HostOrder == <<"home", "n1", "n2", "n3">>

NetHosts == {HostOrder[i] : i \in 1..MaxHosts}

\* the members of S as ns.scan lists them
RECURSIVE ListOf(_, _)
ListOf(S, i) ==
    IF i > MaxHosts THEN <<>>
    ELSE (IF HostOrder[i] \in S THEN <<HostOrder[i]>> ELSE <<>>) \o ListOf(S, i + 1)

\* every link table over NetHosts: a host may link to any other hosts, in one
\* direction or both
LinkTables ==
    {[h \in NetHosts |-> ListOf(nb[h], 1)] :
        nb \in [NetHosts -> SUBSET NetHosts] \cap
               {f \in [NetHosts -> SUBSET NetHosts] : \A h \in NetHosts : h \notin f[h]}}

\* for (const neighbor of neighbors) if (!discovered.has(neighbor)) queue.push
PushFirstNew(q, neighbors, discovered) ==
    LET new == SelectSeq(neighbors, LAMBDA n : n \notin Range(discovered))
    IN IF new = <<>> THEN q ELSE Append(q, Head(new))

PushNew(q, neighbors, discovered) ==
    q \o SelectSeq(neighbors, LAMBDA n : n \notin Range(discovered))

\* one turn of scanEntireNetwork's while loop
scanEntireNetworkStep(lk, st) ==
    LET current == Head(st.queue)
        rest == Tail(st.queue)
    IN IF current \in Range(st.discovered)
       THEN [st EXCEPT !.queue = rest]
       ELSE LET discovered == Append(st.discovered, current)
            IN [st EXCEPT !.discovered = discovered,
                          !.queue = PushNew(rest, lk[current], discovered)]

\* one turn of scanNetwork's while loop
scanNetworkStep(lk, st) ==
    LET current == st.queue[Len(st.queue)]
        rest == SubSeq(st.queue, 1, Len(st.queue) - 1)
    IN IF current \notin Range(st.discovered)
       THEN [st EXCEPT !.discovered = Append(st.discovered, current),
                       !.queue = rest \o lk[current]]
       ELSE [st EXCEPT !.queue = rest]

ScanStepOf(lk, st) ==
    IF st.kind = "scanEntireNetwork" THEN scanEntireNetworkStep(lk, st)
    ELSE scanNetworkStep(lk, st)

StartScan(kind) == [kind |-> kind, queue |-> <<"home">>, discovered |-> <<>>]

\* a whole scan: the loop runs until the queue is empty
RECURSIVE RunScan(_, _)
RunScan(lk, st) ==
    IF st.queue = <<>> THEN st.discovered ELSE RunScan(lk, ScanStepOf(lk, st))

scanEntireNetwork(lk) == RunScan(lk, StartScan("scanEntireNetwork"))

scanNetwork(lk) == RunScan(lk, StartScan("scanNetwork"))

\* ---- a scan taken one loop turn at a time -------------------------------
ScanInit ==
    /\ RegistryIdle
    /\ DaemonIdle
    /\ pool = <<>> /\ requests = <<>> /\ allocations = <<>>
    /\ remainingPool = <<>> /\ apc = "idle"
    /\ SysIdle
    /\ links \in LinkTables
    /\ rootAccess = {}
    /\ hostKind = <<>>
    /\ networkFile = <<>>
    /\ scan \in {StartScan(kind) : kind \in {"scanEntireNetwork", "scanNetwork"}}
    /\ netResult = NoResult
    /\ lastNetworkScan = 0

ScanLoopTurn ==
    /\ scan.queue # <<>>
    /\ scan' = ScanStepOf(links, scan)
    /\ UNCHANGED <<links, rootAccess, hostKind, networkFile, netResult,
                   lastNetworkScan, allocVars, sysVars, regVars, daemonVars>>

\* return Array.from(discovered)
ScanReturn ==
    /\ scan.queue = <<>>
    /\ netResult = NoResult
    /\ netResult' = [op |-> scan.kind, servers |-> scan.discovered]
    /\ UNCHANGED <<links, rootAccess, hostKind, networkFile, scan,
                   lastNetworkScan, allocVars, sysVars, regVars, daemonVars>>

ScanNext ==
    \/ ScanLoopTurn
    \/ ScanReturn

\* the scan is a synchronous loop: it keeps running until it returns
ScanSpec == ScanInit /\ [][ScanNext]_vars /\ WF_vars(ScanNext)

\* the hosts a path of links leads to from the hosts in S
RECURSIVE ReachableFrom(_, _)
ReachableFrom(lk, S) ==
    LET T == S \cup UNION {Range(lk[h]) : h \in S}
    IN IF T = S THEN S ELSE ReachableFrom(lk, T)

\* C13: on every link table, cyclic ones included, both scans return, and
\* what they return lists exactly the hosts reachable from home, each once.
C13_ScanTerminatesExact ==
    /\ <>(netResult # NoResult)
    /\ [](netResult # NoResult =>
            /\ Range(netResult.servers) = ReachableFrom(links, {"home"})
            /\ Len(netResult.servers) = Cardinality(Range(netResult.servers)))

\* a scan has returned on a table with a cycle through home and a host that
\* cannot be reached
C13_Witness ==
    /\ netResult # NoResult
    /\ \E h \in NetHosts \ {"home"} :
          /\ h \in Range(links["home"])
          /\ "home" \in Range(links[h])
    /\ ReachableFrom(links, {"home"}) # NetHosts
    /\ Len(netResult.servers) > 1

\* ========================================================================
\* Network state: detectNetworkChanges, loadNetworkState, saveNetworkState,
\* updateNetworkState (core/network-manager.ts)
\* ========================================================================
MaxScans == 2

\* a stored field is <<value>>, or <<>> when the document lacks it
Field(value) == <<value>>

Missing == <<>>

NetworkState(allServers, rootedServers, hackableServers, purchasedServers) ==
    [allServers |-> Field(allServers),
     rootedServers |-> Field(rootedServers),
     hackableServers |-> Field(hackableServers),
     purchasedServers |-> Field(purchasedServers)]

SnapshotFields == {"allServers", "rootedServers", "hackableServers", "purchasedServers"}

HostsOf(servers) == Range(servers)

\* servers.filter(h => h is in S)
Filter(servers, S) == SelectSeq(servers, LAMBDA h : h \in S)

\* current.filter(h => !old.includes(h))
NotFiltered(current, old) == current

NotIncluded(current, old) == SelectSeq(current, LAMBDA h : h \notin Range(old))

PurchasedHosts(kinds) == {h \in DOMAIN kinds : kinds[h] = "purchased"}

HackableHosts(kinds) == {h \in DOMAIN kinds : kinds[h] = "hackable"}

getPurchasedServers(lk, kinds) == Filter(scanEntireNetwork(lk), PurchasedHosts(kinds))

getHackableServers(lk, kinds) == Filter(scanEntireNetwork(lk), HackableHosts(kinds))

\* readState + the validation of loadNetworkState: null, or the document
loadNetworkStateUnchecked(file) == IF file = <<>> THEN Null ELSE file

loadNetworkState(file) ==
    IF file = <<>> THEN Null
    ELSE IF file[1].allServers = Missing THEN Null
    ELSE file

\* detectNetworkChanges(ns, oldState); threw: a TypeError left the function
Threw == [threw |-> TRUE]

detectNetworkChanges(lk, roots, kinds, oldState) ==
    LET currentServers == scanEntireNetwork(lk)
        currentRooted == Filter(currentServers, roots)
        currentPurchased == getPurchasedServers(lk, kinds)
    IN IF oldState = Null
       THEN [threw |-> FALSE,
             newServers |-> currentServers,
             newlyRooted |-> currentRooted,
             newlyPurchased |-> currentPurchased,
             leveledUp |-> FALSE,
             totalChanges |-> Len(currentServers)]
       ELSE LET old == oldState[1]
            IN IF currentServers # <<>> /\ old.allServers = Missing THEN Threw
               ELSE IF currentRooted # <<>> /\ old.rootedServers = Missing THEN Threw
               ELSE IF currentPurchased # <<>> /\ old.purchasedServers = Missing THEN Threw
               ELSE IF old.hackableServers = Missing THEN Threw
               ELSE LET newServers ==
                            IF currentServers = <<>> THEN <<>>
                            ELSE NotIncluded(currentServers, old.allServers[1])
                        newlyRooted ==
                            IF currentRooted = <<>> THEN <<>>
                            ELSE NotIncluded(currentRooted, old.rootedServers[1])
                        newlyPurchased ==
                            IF currentPurchased = <<>> THEN <<>>
                            ELSE NotIncluded(currentPurchased, old.purchasedServers[1])
                        leveledUp == Len(getHackableServers(lk, kinds))
                                        > Len(old.hackableServers[1])
                    IN [threw |-> FALSE,
                        newServers |-> newServers,
                        newlyRooted |-> newlyRooted,
                        newlyPurchased |-> newlyPurchased,
                        leveledUp |-> leveledUp,
                        totalChanges |-> Len(newServers) + Len(newlyRooted)
                                         + Len(newlyPurchased)
                                         + (IF leveledUp THEN 1 ELSE 0)]

\* const rootedServers = allServers.filter(h => ns.hasRootAccess(h))
RootedAnywhere(allServers, roots) == ListOf(roots, 1)

RootedServers(allServers, roots) == Filter(allServers, roots)

\* updateNetworkState(ns): gained are the hosts rootAllServers gets root on,
\* wok whether the write of the state file succeeds
updateNetworkState(lk, roots, kinds, file, gained, wok) ==
    LET oldState == loadNetworkState(file)
        allServers == scanEntireNetwork(lk)
        rootsNow == roots \cup gained
        rootedServers == RootedServers(allServers, rootsNow)
        newState == NetworkState(allServers, rootedServers,
                                 getHackableServers(lk, kinds),
                                 getPurchasedServers(lk, kinds))
        changes == detectNetworkChanges(lk, rootsNow, kinds, oldState)
    IN IF changes.threw
       THEN [threw |-> TRUE, roots |-> rootsNow, file |-> file]
       ELSE [threw |-> FALSE, roots |-> rootsNow,
             file |-> IF wok THEN <<newState>> ELSE file,
             state |-> newState, changes |-> changes, saved |-> wok]

\* ---- the network, the state file and the calls ---------------------------
\* link tables of the game: a link goes both ways
GameLinkTables == {lk \in LinkTables :
                      \A g \in NetHosts, h \in NetHosts :
                          g \in Range(lk[h]) <=> h \in Range(lk[g])}

\* the network at the start: what is not reachable from home is not linked yet
InitialLinkTables == {lk \in GameLinkTables :
                         \A h \in NetHosts \ HostsOf(scanEntireNetwork(lk)) :
                             lk[h] = <<>>}

\* home and n1 are the player's or plain servers, the others may hold money
KindChoices(h) ==
    IF h = "home" THEN {"plain"}
    ELSE IF h = "n1" THEN {"plain", "purchased"}
    ELSE {"plain", "hackable"}

HostKinds == {k \in [NetHosts -> {"plain", "purchased", "hackable"}] :
                 \A h \in NetHosts : k[h] \in KindChoices(h)}

NetInit ==
    /\ RegistryIdle
    /\ DaemonIdle
    /\ pool = <<>> /\ requests = <<>> /\ allocations = <<>>
    /\ remainingPool = <<>> /\ apc = "idle"
    /\ SysIdle
    /\ links \in InitialLinkTables
    /\ hostKind \in HostKinds
    /\ rootAccess \in {r \in SUBSET NetHosts :
                          "home" \in r /\ PurchasedHosts(hostKind) \subseteq r}
    /\ networkFile = <<>>
    /\ scan = NoScan
    /\ netResult = NoResult
    /\ lastNetworkScan = 0

NetCalled ==
    /\ calls < MaxScans
    /\ calls' = calls + 1
    /\ UNCHANGED <<links, hostKind, scan, lastNetworkScan, allocVars, sysVars, daemonVars, registryFile,
                   defaultRegistry, now, ret, lastCall>>

UpdateNetworkState ==
    \E wok \in {TRUE},
       gained \in SUBSET (HostsOf(scanEntireNetwork(links)) \ rootAccess) :
        LET r == updateNetworkState(links, rootAccess, hostKind, networkFile,
                                    gained, wok)
        IN /\ rootAccess' = r.roots
           /\ networkFile' = r.file
           /\ netResult' = [op |-> "updateNetworkState", result |-> r]
           /\ NetCalled

\* detectNetworkChanges(ns, loadNetworkState(ns))
DetectNetworkChanges ==
    /\ netResult' = [op |-> "detectNetworkChanges",
                     result |-> detectNetworkChanges(links, rootAccess, hostKind,
                                                     loadNetworkState(networkFile))]
    /\ UNCHANGED <<rootAccess, networkFile>>
    /\ NetCalled

\* a server joins the network: it is linked to home
ServerAdded ==
    \E h \in NetHosts \ {"home"} :
        /\ links[h] = <<>>
        /\ \A g \in NetHosts : h \notin Range(links[g])
        /\ links' = [links EXCEPT !["home"] = ListOf(Range(@) \cup {h}, 1),
                                  ![h] = <<"home">>]
        /\ UNCHANGED <<rootAccess, hostKind, networkFile, scan, netResult,
                       lastNetworkScan, allocVars, sysVars, daemonVars, regVars>>

\* the stored document loses a field (a partial or foreign write)
FileDamaged ==
    \E field \in SnapshotFields :
        /\ networkFile # <<>>
        /\ \A f \in SnapshotFields : networkFile[1][f] # Missing
        /\ networkFile' = <<[networkFile[1] EXCEPT ![field] = Missing]>>
        /\ UNCHANGED <<links, rootAccess, hostKind, scan, netResult,
                       lastNetworkScan, allocVars, sysVars, daemonVars, regVars>>

NetNext ==
    \/ UpdateNetworkState
    \/ DetectNetworkChanges
    \/ ServerAdded
    \/ FileDamaged

NetSpec == NetInit /\ [][NetNext]_vars

\* ========================================================================
\* Properties of the network state
\* ========================================================================
\* the step is a call of detectNetworkChanges, alone or inside
\* updateNetworkState, that returned
DetectReturned ==
    /\ calls' # calls
    /\ netResult'.op \in {"detectNetworkChanges", "updateNetworkState"}
    /\ ~netResult'.result.threw

ChangesReturned ==
    IF netResult'.op = "detectNetworkChanges" THEN netResult'.result
    ELSE netResult'.result.changes

NoRepeats(servers) == Len(servers) = Cardinality(Range(servers))

\* C12: with a previous snapshot P, detectNetworkChanges reports as
\* newServers exactly the hosts of the current scan that are not in
\* P.allServers and as newlyRooted exactly the rooted hosts of the current scan
\* that are not in P.rootedServers, each once; a host present in both is not
\* reported as new.
C12_ChangeDetection ==
    [][(DetectReturned /\ loadNetworkState(networkFile) # Null) =>
          LET P == networkFile[1]
              current == ReachableFrom(links, {"home"})
              changes == ChangesReturned
          IN /\ HostsOf(changes.newServers) = current \ HostsOf(P.allServers[1])
             /\ HostsOf(changes.newlyRooted)
                   = (current \cap rootAccess') \ HostsOf(P.rootedServers[1])
             /\ HostsOf(changes.newServers) \cap HostsOf(P.allServers[1]) = {}
             /\ NoRepeats(changes.newServers)
             /\ NoRepeats(changes.newlyRooted)]_vars

\* a rescan found one new server, and n2, known before, newly rooted
C12_Witness ==
    /\ netResult.op = "updateNetworkState"
    /\ ~netResult.result.threw
    /\ netResult.result.changes.newServers = <<"n1">>
    /\ netResult.result.changes.newlyRooted = <<"n2">>
    /\ HostsOf(netResult.result.state.allServers[1]) = {"home", "n1", "n2"}

\* C14: in the snapshot updateNetworkState returns and writes, rootedServers
\* holds exactly the hosts of allServers that have root access, so it is a
\* subset of allServers.
C14_RootedWithinAll ==
    [][(calls' # calls /\ netResult'.op = "updateNetworkState"
            /\ ~netResult'.result.threw) =>
          LET state == netResult'.result.state
          IN /\ HostsOf(state.rootedServers[1]) \subseteq HostsOf(state.allServers[1])
             /\ HostsOf(state.rootedServers[1])
                   = HostsOf(state.allServers[1]) \cap rootAccess'
             /\ netResult'.result.saved => networkFile' = <<state>>]_vars

\* a snapshot was written in which some but not all servers are rooted
C14_Witness ==
    /\ netResult.op = "updateNetworkState"
    /\ ~netResult.result.threw
    /\ networkFile = <<netResult.result.state>>
    /\ Len(networkFile[1].rootedServers[1]) > 1
    /\ Len(networkFile[1].allServers[1]) > Len(networkFile[1].rootedServers[1])

\* C20 (topology part): when the stored snapshot lacks one of its array
\* fields, updateNetworkState returns, and detects the changes it would
\* detect with no stored snapshot.
C20_MalformedAsAbsent ==
    [][(/\ calls' # calls
        /\ netResult'.op = "updateNetworkState"
        /\ networkFile # <<>>
        /\ \E f \in SnapshotFields : networkFile[1][f] = Missing) =>
          /\ ~netResult'.result.threw
          /\ netResult'.result.changes
                = detectNetworkChanges(links, rootAccess', hostKind, Null)]_vars

\* ========================================================================
\* Properties of the partial updates
\* ========================================================================
PartialUpdates ==
    {"updateModuleStatus", "updateModulePID", "updateModulePorts",
     "updateModuleAllocation"}

\* the persisted registry: the table of the stored registry file, empty
\* while no file has been written
PersistedRegistry == IF registryFile.exists THEN registryFile.modules ELSE <<>>

\* C16: a partial update for a name that is not registered (the persisted
\* registry holds no record of it) returns false and leaves the stored
\* registry as it was, creating no record; for a registered name a
\* successful one stamps that record's lastStatusUpdate with the current
\* time, keeps the set of records, and leaves every other module's record as
\* it was.
C16_PartialUpdates ==
    [][(calls' = calls + 1 /\ lastCall'.op \in PartialUpdates) =>
          LET name == lastCall'.name
          IN /\ ~HasModule(PersistedRegistry, name) =>
                   /\ ~ret'
                   /\ registryFile' = registryFile
                   /\ ~HasModule(PersistedRegistry', name)
             /\ (HasModule(PersistedRegistry, name) /\ ret') =>
                   /\ HasModule(PersistedRegistry', name)
                   /\ GetModule(PersistedRegistry', name).lastStatusUpdate = now
                   /\ Len(PersistedRegistry') = Len(PersistedRegistry)
                   /\ \A other \in ModuleNames \ {name} :
                         HasModule(PersistedRegistry, other) =>
                            /\ HasModule(PersistedRegistry', other)
                            /\ GetModule(PersistedRegistry', other)
                                  = GetModule(PersistedRegistry, other)]_vars

\* the part of C16 that holds: the same statement over the calls made while
\* a registry file exists, where the table the code tests is the persisted
\* one, together with: a failed write leaves the file as it was
C16_PartialUpdatesOnFile ==
    [][(/\ calls' = calls + 1
        /\ lastCall'.op \in PartialUpdates
        /\ registryFile.exists) =>
          LET name == lastCall'.name
          IN /\ ~HasModule(PersistedRegistry, name) =>
                   /\ ~ret'
                   /\ registryFile' = registryFile
             /\ (HasModule(PersistedRegistry, name) /\ ret') =>
                   /\ HasModule(PersistedRegistry', name)
                   /\ GetModule(PersistedRegistry', name).lastStatusUpdate = now
                   /\ Len(PersistedRegistry') = Len(PersistedRegistry)
                   /\ \A other \in ModuleNames \ {name} :
                         HasModule(PersistedRegistry, other) =>
                            /\ HasModule(PersistedRegistry', other)
                            /\ GetModule(PersistedRegistry', other)
                                  = GetModule(PersistedRegistry, other)
             /\ ~ret' => registryFile' = registryFile]_vars

\* a partial update of one of two registered modules, made later than both
\* registrations
C16_Witness ==
    /\ lastCall.op \in PartialUpdates
    /\ ret
    /\ Len(PersistedRegistry) = 2
    /\ GetModule(PersistedRegistry, lastCall.name).lastStatusUpdate = 1
    /\ \E other \in ModuleNames \ {lastCall.name} :
          /\ HasModule(PersistedRegistry, other)
          /\ GetModule(PersistedRegistry, other).lastStatusUpdate = 0

\* ========================================================================
\* The registry on a failing store (readState / writeState of ns-utils)
\* ========================================================================
\* readState: the stored document, or the default value when ns.read or
\* JSON.parse throws (rok = FALSE)
readState(file, rok) == IF rok THEN file ELSE [exists |-> FALSE, modules |-> <<>>]

\* the outcome r of an operation that ran on what readState returned: the
\* real file is replaced only when the operation wrote
OnStore(file, rok, r) ==
    [r EXCEPT !.file = IF r.file = readState(file, rok) THEN file ELSE r.file]

getModuleByPID(file, defaults, pid) ==
    LET found == SelectSeq(loadRegistry(file, defaults), LAMBDA m : m.pid = pid)
    IN IF found # <<>> THEN <<found[1]>> ELSE Null

getModulesByStatus(file, defaults, status) ==
    SelectSeq(loadRegistry(file, defaults), LAMBDA m : m.status = status)

getRunningModules(file, defaults) ==
    SelectSeq(loadRegistry(file, defaults),
              LAMBDA m : m.pid # NoPid /\ m.status = "running")

StoreInit ==
    /\ DaemonIdle
    /\ NetIdle
    /\ pool = <<>> /\ requests = <<>> /\ allocations = <<>>
    /\ remainingPool = <<>> /\ apc = "idle"
    /\ SysIdle
    /\ registryFile = [exists |-> FALSE, modules |-> <<>>]
    /\ defaultRegistry = <<>>
    /\ now = 0
    /\ ret = FALSE
    /\ lastCall = [op |-> "none", name |-> "", rok |-> TRUE, wok |-> TRUE,
                   value |-> <<>>]
    /\ calls = 0

\* a call of an operation that may write
StoreWritten(op, name, rok, wok, r) ==
    /\ calls < MaxCalls
    /\ calls' = calls + 1
    /\ registryFile' = OnStore(registryFile, rok, r).file
    /\ defaultRegistry' = r.defaults
    /\ ret' = r.ret
    /\ lastCall' = [op |-> op, name |-> name, rok |-> rok, wok |-> wok,
                    value |-> <<>>]
    /\ UNCHANGED <<now, allocVars, sysVars, daemonVars, netVars>>

\* a call of an operation that only reads
StoreRead(op, name, rok, value) ==
    /\ lastCall' = [op |-> op, name |-> name, rok |-> rok, wok |-> TRUE,
                    value |-> value]
    /\ UNCHANGED <<registryFile, defaultRegistry, ret, calls, now,
                   allocVars, sysVars, daemonVars, netVars>>

StoreRegisterModule ==
    \E name \in ModuleNames, config \in {c \in ConfigChoices : c.enabled},
       priority \in ModulePriorities, rok \in BOOLEAN, wok \in BOOLEAN :
        StoreWritten("registerModule", name, rok, wok,
                     registerModule(readState(registryFile, rok), defaultRegistry,
                                    now, name, ScriptPathOf(name), config, priority,
                                    ControlPortOf(name), StatusPortOf(name), wok))

StoreUnregisterModule ==
    \E name \in ModuleNames, rok \in BOOLEAN, wok \in BOOLEAN :
        StoreWritten("unregisterModule", name, rok, wok,
                     unregisterModule(readState(registryFile, rok), defaultRegistry,
                                      name, wok))

StoreUpdateModuleStatus ==
    \E name \in ModuleNames, rok \in BOOLEAN, wok \in BOOLEAN :
        StoreWritten("updateModuleStatus", name, rok, wok,
                     updateModuleStatus(readState(registryFile, rok), defaultRegistry,
                                        now, name, "running", wok))

StoreUpdateModulePID ==
    \E name \in ModuleNames, rok \in BOOLEAN, wok \in BOOLEAN :
        StoreWritten("updateModulePID", name, rok, wok,
                     updateModulePID(readState(registryFile, rok), defaultRegistry,
                                     now, name, 1, wok))

StoreUpdateModulePorts ==
    \E name \in ModuleNames, rok \in BOOLEAN, wok \in BOOLEAN :
        StoreWritten("updateModulePorts", name, rok, wok,
                     updateModulePorts(readState(registryFile, rok), defaultRegistry,
                                       now, name, 12, 32, wok))

StoreUpdateModuleAllocation ==
    \E name \in ModuleNames, rok \in BOOLEAN, wok \in BOOLEAN :
        StoreWritten("updateModuleAllocation", name, rok, wok,
                     updateModuleAllocation(readState(registryFile, rok),
                                            defaultRegistry, now, name,
                                            [field |-> "allocated", value |-> 8], wok))

StoreGetModuleStatus ==
    \E name \in ModuleNames, rok \in BOOLEAN :
        StoreRead("getModuleStatus", name, rok,
                  getModuleStatus(readState(registryFile, rok), defaultRegistry, name))

StoreGetModuleByPID ==
    \E rok \in BOOLEAN :
        StoreRead("getModuleByPID", "", rok,
                  getModuleByPID(readState(registryFile, rok), defaultRegistry, 1))

StoreGetAllModules ==
    \E rok \in BOOLEAN :
        StoreRead("getAllModules", "", rok,
                  getAllModules(readState(registryFile, rok), defaultRegistry))

StoreGetModulesByPriority ==
    \E rok \in BOOLEAN :
        StoreRead("getModulesByPriority", "", rok,
                  getModulesByPriority(readState(registryFile, rok), defaultRegistry))

StoreGetModulesByStatus ==
    \E rok \in BOOLEAN :
        StoreRead("getModulesByStatus", "", rok,
                  getModulesByStatus(readState(registryFile, rok), defaultRegistry,
                                     "stopped"))

StoreGetRunningModules ==
    \E rok \in BOOLEAN :
        StoreRead("getRunningModules", "", rok,
                  getRunningModules(readState(registryFile, rok), defaultRegistry))

StoreNext ==
    \/ StoreRegisterModule
    \/ StoreUnregisterModule
    \/ StoreUpdateModuleStatus
    \/ StoreUpdateModulePID
    \/ StoreUpdateModulePorts
    \/ StoreUpdateModuleAllocation
    \/ StoreGetModuleStatus
    \/ StoreGetModuleByPID
    \/ StoreGetAllModules
    \/ StoreGetModulesByPriority
    \/ StoreGetModulesByStatus
    \/ StoreGetRunningModules

StoreSpec == StoreInit /\ [][StoreNext]_vars

StoreWriters ==
    {"registerModule", "unregisterModule", "updateModuleStatus",
     "updateModulePID", "updateModulePorts", "updateModuleAllocation"}

\* C15: after a call during which the read or the write of the store failed,
\* registerModule, unregisterModule and the updates have returned false, and
\* getModuleStatus, getModuleByPID and the list operations have returned
\* null or an empty collection.
C15_FailureIndicator ==
    (lastCall.op # "none" /\ (~lastCall.rok \/ ~lastCall.wok)) =>
        IF lastCall.op \in StoreWriters THEN ret = FALSE
        ELSE lastCall.value = <<>>

\* ========================================================================
\* getModulesByPriority over registration histories
\* ========================================================================
PriorityNames == ModuleNames \cup {"early-game"}

\* position of a name in a list of names
PositionOf(names, name) == CHOOSE i \in 1..Len(names) : names[i] = name

\* lastCall.order: the registered names in the order of their registration
PriorityInit ==
    /\ DaemonIdle
    /\ NetIdle
    /\ pool = <<>> /\ requests = <<>> /\ allocations = <<>>
    /\ remainingPool = <<>> /\ apc = "idle"
    /\ SysIdle
    /\ registryFile = [exists |-> FALSE, modules |-> <<>>]
    /\ defaultRegistry = <<>>
    /\ now = 0
    /\ ret = FALSE
    /\ lastCall = [op |-> "none", order |-> <<>>, value |-> <<>>]
    /\ calls = 0

PriorityCalled(op, order, r) ==
    /\ calls < MaxCalls
    /\ calls' = calls + 1
    /\ registryFile' = r.file
    /\ defaultRegistry' = r.defaults
    /\ ret' = r.ret
    /\ lastCall' = [op |-> op, order |-> order, value |-> <<>>]
    /\ UNCHANGED <<now, allocVars, sysVars, daemonVars, netVars>>

PriorityRegister ==
    \E name \in PriorityNames, priority \in ModulePriorities :
        PriorityCalled("registerModule",
                       IF name \in Range(lastCall.order) THEN lastCall.order
                       ELSE Append(lastCall.order, name),
                       registerModule(registryFile, defaultRegistry, now, name,
                                      ScriptPathOf(name),
                                      CHOOSE c \in ConfigChoices : c.enabled,
                                      priority, ControlPortOf(name),
                                      StatusPortOf(name), TRUE))

PriorityUnregister ==
    \E name \in PriorityNames :
        PriorityCalled("unregisterModule",
                       SelectSeq(lastCall.order, LAMBDA n : n # name),
                       unregisterModule(registryFile, defaultRegistry, name, TRUE))

PriorityList ==
    /\ lastCall' = [op |-> "getModulesByPriority", order |-> lastCall.order,
                    value |-> getModulesByPriority(registryFile, defaultRegistry)]
    /\ UNCHANGED <<registryFile, defaultRegistry, ret, calls, now,
                   allocVars, sysVars, daemonVars, netVars>>

PriorityNext ==
    \/ PriorityRegister
    \/ PriorityUnregister
    \/ PriorityList

PrioritySpec == PriorityInit /\ [][PriorityNext]_vars

\* C17: the list getModulesByPriority returns holds every registered module
\* exactly once, priorities never increase along it, and of two modules with
\* the same priority the one registered first comes first.
C17_PriorityOrder ==
    lastCall.op = "getModulesByPriority" =>
        LET out == lastCall.value
            order == lastCall.order
        IN /\ Len(out) = Len(order)
           /\ {out[i].name : i \in 1..Len(out)} = Range(order)
           /\ \A i, j \in 1..Len(out) :
                 i < j => /\ out[i].priority >= out[j].priority
                          /\ out[i].priority = out[j].priority =>
                                PositionOf(order, out[i].name)
                                   < PositionOf(order, out[j].name)

\* three modules listed: the second registered has the highest priority and
\* comes first, the other two tie and keep their registration order
C17_Witness ==
    /\ lastCall.op = "getModulesByPriority"
    /\ Len(lastCall.value) = 3
    /\ lastCall.value[1].name = lastCall.order[2]
    /\ lastCall.value[2].name = lastCall.order[1]
    /\ lastCall.value[3].name = lastCall.order[3]
    /\ lastCall.value[2].priority = lastCall.value[3].priority

\* ========================================================================
\* Module lifecycle calls (daemon.ts, MODULE LIFECYCLE): startModule and
\* stopModule called one after the other, module processes running while a
\* call sleeps
\* ========================================================================
LifecycleInit ==
    /\ NetIdle
    /\ pool = <<>> /\ requests = <<>> /\ allocations = <<>>
    /\ remainingPool = <<>> /\ apc = "idle"
    /\ SysIdle
    /\ \E file \in InitialRegistries :
          LET r == IF ~isModuleRegistered(file, <<>>, BuiltinName)
                   THEN registerModule(file, <<>>, 0, BuiltinName,
                                       ScriptPathOf(BuiltinName), BuiltinConfig,
                                       BuiltinPriority, ControlPortOf(BuiltinName),
                                       StatusPortOf(BuiltinName), TRUE)
                   ELSE Unchanged(file, <<>>, TRUE)
          IN /\ registryFile = r.file
             /\ defaultRegistry = r.defaults
    /\ now = 0
    /\ ret = FALSE
    /\ lastCall = [op |-> "none", name |-> "", replaced |-> FALSE]
    /\ calls = 0
    /\ dpc = "idle"
    /\ queue = <<>>
    /\ starting = NoCall
    /\ ports = [p \in PortNumbers |-> <<>>]
    /\ procs = <<>>
    /\ enableAutoRecovery = FALSE
    /\ moduleRestarts = 0
    /\ errorLog = 0
    /\ failedStarts = {}

\* a call of startModule(ns, name)
CallStartModule ==
    /\ dpc = "idle"
    /\ calls < MaxCalls
    /\ calls' = calls + 1
    /\ \E name \in ModuleNames :
          /\ StartModule(name, "idle")
          /\ lastCall' = [op |-> "startModule", name |-> name, replaced |-> FALSE]
    /\ UNCHANGED <<now, ret, queue, ports, enableAutoRecovery, moduleRestarts,
                   errorLog, allocVars, sysVars, netVars>>

\* the process table when stopModule reaches its sleep: the stop message has
\* been sent, ns.kill has not been called yet
KilledBeforeWait(ps, pid) == IF pid # NoPid THEN Kill(ps, pid) ELSE ps

AliveBeforeWait(ps, pid) == ps

\* stopModule's registry writes after the sleep
StoppedRecord(file, defaults, t, name, pid) ==
    LET r == IF pid # NoPid
             THEN updateModulePID(file, defaults, t, name, NoPid, TRUE)
             ELSE Unchanged(file, defaults, TRUE)
    IN updateModuleStatus(r.file, r.defaults, t, name, "stopped", TRUE)

\* stopModule up to its await: look the module up, send the stop message
CallStopModule ==
    /\ dpc = "idle"
    /\ calls < MaxCalls
    /\ calls' = calls + 1
    /\ \E name \in ModuleNames :
          LET found == getModuleStatus(registryFile, defaultRegistry, name)
          IN /\ lastCall' = [op |-> "stopModule", name |-> name, replaced |-> FALSE]
             /\ IF found = Null
                THEN /\ ret' = FALSE
                     /\ UNCHANGED <<dpc, starting, ports, procs, registryFile,
                                    defaultRegistry>>
                ELSE LET moduleData == found[1]
                     IN IF moduleData.controlPort # 0
                        THEN /\ ports' = sendControlMessage(ports, moduleData.controlPort,
                                                            now, [type |-> "stop"])
                             /\ procs' = AliveBeforeWait(procs, moduleData.pid)
                             /\ dpc' = "stopping"
                             /\ starting' = [caller |-> "idle", name |-> name,
                                             controlPort |-> moduleData.controlPort,
                                             pid |-> moduleData.pid]
                             /\ UNCHANGED <<ret, registryFile, defaultRegistry>>
                        ELSE LET r == StoppedRecord(registryFile, defaultRegistry,
                                                    now, name, moduleData.pid)
                             IN /\ procs' = IF moduleData.pid # NoPid
                                            THEN Kill(procs, moduleData.pid)
                                            ELSE procs
                                /\ registryFile' = r.file
                                /\ defaultRegistry' = r.defaults
                                /\ ret' = TRUE
                                /\ UNCHANGED <<dpc, starting, ports>>
    /\ UNCHANGED <<now, queue, enableAutoRecovery, moduleRestarts, errorLog, failedStarts,
                   allocVars, sysVars, netVars>>

\* stopModule after its sleep(1000): kill the process read before the sleep,
\* clear the pid, set the state, return true
StopModuleFinish ==
    /\ dpc = "stopping"
    /\ LET r == StoppedRecord(registryFile, defaultRegistry, now, starting.name,
                              starting.pid)
       IN /\ procs' = IF starting.pid # NoPid THEN Kill(procs, starting.pid)
                      ELSE procs
          /\ registryFile' = r.file
          /\ defaultRegistry' = r.defaults
    /\ ret' = TRUE
    /\ dpc' = "idle"
    /\ starting' = NoCall
    /\ UNCHANGED <<now, lastCall, calls, queue, ports, enableAutoRecovery,
                   moduleRestarts, errorLog, failedStarts, allocVars, sysVars, netVars>>

LifecycleNext ==
    \/ CallStartModule
    \/ LaunchAfterKill
    \/ SendStart
    \/ StaggerDone
    \/ CallStopModule
    \/ StopModuleFinish
    \/ ModuleStep
    \/ ProcessDies

LifecycleSpec == LifecycleInit /\ [][LifecycleNext]_vars

\* C18: the step of stopModule that sends the stop message leaves the stop
\* message as the newest on the module's control port and terminates no
\* process; the module's process is terminated by stopModule only in the step
\* after the wait; and when stopModule returns true the module's record has
\* state stopped and no pid.
C18_StopOrdered ==
    [][/\ (dpc = "idle" /\ dpc' = "stopping") =>
             /\ Last(ports'[starting'.controlPort]).data.type = "stop"
             /\ procs' = procs
       /\ (lastCall'.op = "stopModule" /\ procs' # procs /\ dpc' # dpc) =>
             /\ dpc = "stopping"
             /\ starting.pid # NoPid
             /\ procs' = Kill(procs, starting.pid)
       /\ (/\ lastCall'.op = "stopModule" /\ ret' /\ dpc' = "idle"
           /\ (calls' # calls \/ dpc' # dpc)) =>
             /\ HasModule(Registry', lastCall'.name)
             /\ GetModule(Registry', lastCall'.name).status = "stopped"
             /\ GetModule(Registry', lastCall'.name).pid = NoPid]_vars

\* stopModule has returned true for a started module whose process read the
\* stop message during the wait and was then terminated
C18_Witness ==
    /\ lastCall.op = "stopModule"
    /\ ret
    /\ dpc = "idle"
    /\ GetModule(Registry, lastCall.name).status = "stopped"
    /\ ports[ControlPortOf(lastCall.name)] = <<>>
    /\ \E pid \in 1..Len(procs) :
          /\ procs[pid].module = lastCall.name
          /\ ~procs[pid].alive
          /\ ~procs[pid].isActive
    /\ ports[StatusPortOf(lastCall.name)] # <<>>
    /\ ~Last(ports[StatusPortOf(lastCall.name)]).data.data.isActive

\* ========================================================================
\* Lifetime of a registry record
\* ========================================================================
\* every record whose recorded process is dead and which has been silent for
\* longer than the timeout is in state error
DeadModulesFailed ==
    \A i \in 1..Len(Registry) :
        (/\ Registry[i].pid # NoPid
         /\ ~IsRunning(procs, Registry[i].pid)
         /\ now - Registry[i].lastStatusUpdate > ModuleStatusTimeout)
        => Registry[i].status = "error"

\* C19: a record leaves the registry only in a step that is an
\* unregisterModule call for its name, never in a step of the daemon or of a
\* module process; and after each status collection every module whose
\* recorded process is dead and which has been silent beyond the timeout is
\* registered in state error.
C19_RecordLifetime ==
    [][/\ \A name \in ModuleNames :
             (HasModule(Registry, name) /\ ~HasModule(Registry', name)) =>
                /\ calls' = calls + 1
                /\ lastCall'.op = "unregisterModule"
                /\ lastCall'.name = name
                /\ dpc' = dpc
       /\ dpc' = "recoverBegin" => DeadModulesFailed']_vars

\* a status collection has just marked a module whose process died as error
C19_Witness ==
    /\ dpc = "recoverBegin"
    /\ now > ModuleStatusTimeout
    /\ \E i \in 1..Len(Registry) :
          /\ Registry[i].pid # NoPid
          /\ ~IsRunning(procs, Registry[i].pid)
          /\ Registry[i].status = "error"
          /\ Registry[i].lastStatusUpdate = now

\* ========================================================================
\* buildResourcePool (core/resource-allocator.ts)
\* ========================================================================
\* [totalRam, usedRam] of a server; home is large, the others may have no RAM
RamChoices(h) ==
    IF h = "home"
    THEN {[totalRam |-> 4, usedRam |-> 0], [totalRam |-> 4, usedRam |-> 3]}
    ELSE {[totalRam |-> 0, usedRam |-> 0], [totalRam |-> 2, usedRam |-> 0],
          [totalRam |-> 3, usedRam |-> 1]}

ReserveChoices == {0, 2}

Max(a, b) == IF a > b THEN a ELSE b

\* for (const neighbor of neighbors) if (!visited.has(neighbor)) queue.push
PushUnvisited(q, neighbors, visited) ==
    q \o SelectSeq(neighbors, LAMBDA n : n \notin visited)

\* the branch of a server without root access: nothing is added to the pool
\* and its neighbours are queued
SkipNeighbors(q, hostname, visited) == q

ScanNeighbors(q, hostname, visited) == PushUnvisited(q, links[hostname], visited)

\* the entry of a rooted server
PoolEntry(hostname, reserveHomeRam) ==
    LET totalRam == serverRam[hostname].totalRam
        usedRam == serverRam[hostname].usedRam
        isHome == hostname = "home"
        availableRam == IF isHome THEN Max(0, totalRam - usedRam - reserveHomeRam)
                        ELSE totalRam - usedRam
    IN [hostname |-> hostname, totalRam |-> totalRam, usedRam |-> usedRam,
        availableRam |-> availableRam, isHome |-> isHome,
        isPurchased |-> hostname \in PurchasedHosts(hostKind)]

\* the BFS loop: q is the queue, visited the set, acc the pool so far
RECURSIVE PoolScan(_, _, _, _)
PoolScan(q, visited, acc, reserveHomeRam) ==
    IF q = <<>> THEN acc
    ELSE LET hostname == Head(q)
             rest == Tail(q)
             seen == visited \cup {hostname}
         IN IF hostname \in visited THEN PoolScan(rest, visited, acc, reserveHomeRam)
            ELSE IF hostname \notin rootAccess
            THEN PoolScan(ScanNeighbors(rest, hostname, seen), seen, acc, reserveHomeRam)
            ELSE PoolScan(PushUnvisited(rest, links[hostname], seen), seen,
                          IF serverRam[hostname].totalRam > 0
                          THEN Append(acc, PoolEntry(hostname, reserveHomeRam))
                          ELSE acc,
                          reserveHomeRam)

buildResourcePool(reserveHomeRam) ==
    LET Cmp(a, b) == b.availableRam - a.availableRam
    IN StableSort(PoolScan(<<"home">>, {}, <<>>, reserveHomeRam), Cmp)

PoolInit ==
    /\ RegistryIdle
    /\ DaemonIdle
    /\ pool = <<>> /\ requests = <<>> /\ allocations = <<>>
    /\ remainingPool = <<>> /\ apc = "idle"
    /\ links \in GameLinkTables
    /\ hostKind \in HostKinds
    /\ rootAccess \in {r \in SUBSET NetHosts :
                          "home" \in r /\ PurchasedHosts(hostKind) \subseteq r}
    /\ networkFile = <<>>
    /\ scan = NoScan
    /\ netResult = NoResult
    /\ lastNetworkScan = 0
    /\ serverRam \in {f \in [NetHosts -> UNION {RamChoices(h) : h \in NetHosts}] :
                         \A h \in NetHosts : f[h] \in RamChoices(h)}
    /\ logFiles = [main |-> <<>>, component |-> <<>>]
    /\ resourceRequestCache = <<>>
    /\ allocationFile = <<>>

\* buildResourcePool(ns, reserveHomeRam)
BuildResourcePool ==
    \E reserveHomeRam \in ReserveChoices :
        /\ apc = "idle"
        /\ apc' = "built"
        /\ pool' = buildResourcePool(reserveHomeRam)
        /\ lastCall' = [op |-> "buildResourcePool", reserveHomeRam |-> reserveHomeRam]
        /\ UNCHANGED <<requests, allocations, remainingPool, registryFile,
                       defaultRegistry, now, ret, calls, daemonVars, netVars, sysVars>>

PoolNext == BuildResourcePool

PoolSpec == PoolInit /\ [][PoolNext]_vars

\* the servers the pool has to list
Admitted == {h \in ReachableFrom(links, {"home"}) :
                h \in rootAccess /\ serverRam[h].totalRam > 0}

\* C25: the pool built by buildResourcePool has exactly one entry for every
\* server reachable from home that is rooted and has totalRam > 0, servers
\* behind unrooted ones included; an entry's availableRam is totalRam -
\* usedRam, for home max(0, totalRam - usedRam - reserveHomeRam); the pool is
\* in non-increasing order of availableRam.
C25_PoolContents ==
    apc = "built" =>
        /\ {pool[i].hostname : i \in 1..Len(pool)} = Admitted
        /\ \A i, j \in 1..Len(pool) :
              /\ pool[i].hostname = pool[j].hostname => i = j
              /\ i < j => pool[i].availableRam >= pool[j].availableRam
        /\ \A i \in 1..Len(pool) :
              LET e == pool[i]
                  free == serverRam[e.hostname].totalRam - serverRam[e.hostname].usedRam
              IN /\ e.totalRam = serverRam[e.hostname].totalRam
                 /\ e.usedRam = serverRam[e.hostname].usedRam
                 /\ e.isHome <=> e.hostname = "home"
                 /\ IF e.isHome
                    THEN /\ e.availableRam >= 0
                         /\ e.availableRam >= free - lastCall.reserveHomeRam
                         /\ e.availableRam \in {0, free - lastCall.reserveHomeRam}
                    ELSE e.availableRam = free

\* a rooted server with RAM is listed although it is reachable only through a
\* server without root access, and home's entry is cut to 0 by the reserve
C25_Witness ==
    /\ apc = "built"
    /\ \E i, j \in 1..Len(pool) :
          /\ pool[i].isHome
          /\ pool[i].availableRam = 0
          /\ pool[i].totalRam - pool[i].usedRam > 0
          /\ ~pool[j].isHome
          /\ pool[j].hostname \notin Range(links["home"])
          /\ \A h \in Range(links[pool[j].hostname]) : h \notin rootAccess
          /\ i > j

\* ========================================================================
\* Logging (ns-utils log, appendToLogFile); file reads and writes succeed
\* ========================================================================
\* log calls that reach the files
MaxLogCalls == 1002

\* clearComponentLogs calls, and the log calls that reach the files after one
MaxClears == 1
MaxAfterClear == 3

\* appendToLogFile: maxEntries = 1000
MainLogMaxEntries == 1000

\* DEFAULT_LOGGING_CONFIG.componentLogMaxEntries
ComponentLogMaxEntries == 500

\* enum LogLevel and levelNames
LogLevelDebug == 0
LogLevelInfo == 1
LevelNames == <<"DEBUG", "INFO", "WARN", "ERROR">>

\* the logging configurations: the default, component logs switched on, and
\* component logs with smaller limits
LoggingConfigs ==
    {[logLevel |-> LogLevelInfo, enableComponentLogs |-> e, componentLogMaxEntries |-> m] :
        e \in BOOLEAN, m \in {ComponentLogMaxEntries}}
    \cup {[logLevel |-> LogLevelInfo, enableComponentLogs |-> TRUE,
           componentLogMaxEntries |-> m] : m \in {100, 2}}

\* appendToLogFile: push the entry, then splice the oldest entries away
appendUnbounded(existingLogs, entry, maxEntries) == Append(existingLogs, entry)

appendToLogFile(existingLogs, entry, maxEntries) ==
    LET pushed == Append(existingLogs, entry)
    IN IF Len(pushed) > maxEntries
       THEN SubSeq(pushed, Len(pushed) - maxEntries + 1, Len(pushed))
       ELSE pushed

\* log(ns, level, component, message, loggingConfig) applied to the two files
log(files, t, level, component, message, config) ==
    IF level < config.logLevel THEN files
    ELSE LET logEntry == [timestamp |-> t, level |-> LevelNames[level + 1],
                          component |-> component, message |-> message]
         IN [main |-> appendToLogFile(files.main, logEntry, MainLogMaxEntries),
             component |->
                IF config.enableComponentLogs
                THEN appendToLogFile(files.component, logEntry,
                                     config.componentLogMaxEntries)
                ELSE files.component]

\* clearComponentLogs(ns, component): the component's file is written empty
clearComponentLogs(files) == [files EXCEPT !.component = <<>>]

LogInit ==
    /\ DaemonIdle
    /\ NetIdle
    /\ registryFile = [exists |-> FALSE, modules |-> <<>>]
    /\ defaultRegistry = <<>>
    /\ now = 0
    /\ ret = FALSE
    /\ \E config \in LoggingConfigs :
          lastCall = [op |-> "none", level |-> LogLevelInfo, loggingConfig |-> config,
                      clears |-> 0, clearedAt |-> 0]
    /\ calls = 0
    /\ pool = <<>> /\ requests = <<>> /\ allocations = <<>>
    /\ remainingPool = <<>> /\ apc = "idle"
    /\ serverRam = <<>>
    /\ logFiles = [main |-> <<>>, component |-> <<>>]
    /\ resourceRequestCache = <<>>
    /\ allocationFile = <<>>

\* one log call of the component; the messages that pass the level filter
\* are numbered in the order in which they are logged
Log ==
    \E level \in {LogLevelDebug, LogLevelInfo} :
        LET passes == level >= lastCall.loggingConfig.logLevel
            message == IF passes THEN calls + 1 ELSE calls
        IN /\ calls < MaxLogCalls
           /\ lastCall.clears > 0 => calls < lastCall.clearedAt + MaxAfterClear
           /\ logFiles' = log(logFiles, now, level, "Daemon", message,
                              lastCall.loggingConfig)
           /\ calls' = message
           /\ lastCall' = [lastCall EXCEPT !.op = "log", !.level = level]
           /\ UNCHANGED <<registryFile, defaultRegistry, now, ret, allocVars,
                          daemonVars, netVars, serverRam, resourceRequestCache,
                          allocationFile>>

\* clearComponentLogs of the component; lastCall keeps the number of messages
\* logged before it
ClearComponentLogs ==
    /\ lastCall.clears < MaxClears
    /\ logFiles' = clearComponentLogs(logFiles)
    /\ ret' = TRUE
    /\ lastCall' = [lastCall EXCEPT !.op = "clearComponentLogs",
                                    !.clears = @ + 1, !.clearedAt = calls]
    /\ UNCHANGED <<registryFile, defaultRegistry, now, calls, allocVars,
                   daemonVars, netVars, serverRam, resourceRequestCache,
                   allocationFile>>

LogNext ==
    \/ Log
    \/ ClearComponentLogs

LogSpec == LogInit /\ [][LogNext]_vars

\* a log file holds the newest limit entries logged after the first `since`,
\* oldest first
NewestKept(file, limit, since) ==
    /\ Len(file) = Min(calls - since, limit)
    /\ \A k \in 1..Len(file) : file[k].message = calls - Len(file) + k

\* C21: Log files are bounded FIFO: the main daemon log never holds more than
\* 1000 entries and a component log never more than componentLogMaxEntries;
\* what a file holds is the newest entries logged (for a component log, since
\* it was last cleared), none missing, in the order in which they were
\* appended.
C21_LogsBounded ==
    /\ Len(logFiles.main) <= MainLogMaxEntries
    /\ Len(logFiles.component) <= lastCall.loggingConfig.componentLogMaxEntries
    /\ NewestKept(logFiles.main, MainLogMaxEntries, 0)
    /\ IF lastCall.loggingConfig.enableComponentLogs
       THEN NewestKept(logFiles.component,
                       lastCall.loggingConfig.componentLogMaxEntries,
                       lastCall.clearedAt)
       ELSE logFiles.component = <<>>

\* more than 1000 entries were logged: the main log holds 1000, the first
\* of them is not the first one logged, and the component log holds its 500
C21_Witness ==
    /\ calls > MainLogMaxEntries
    /\ Len(logFiles.main) = MainLogMaxEntries
    /\ logFiles.main[1].message = calls - MainLogMaxEntries + 1
    /\ logFiles.main[MainLogMaxEntries].message = calls
    /\ lastCall.loggingConfig.componentLogMaxEntries = ComponentLogMaxEntries
    /\ Len(logFiles.component) = ComponentLogMaxEntries
    /\ logFiles.component[1].message = calls - ComponentLogMaxEntries + 1

\* ========================================================================
\* Launch failures (startModule, recoverFailedModules)
\* ========================================================================
\* the step is a startModule call for a registered module whose launch fails
LaunchFails(name) ==
    /\ starting = NoCall \/ dpc = "killed"
    /\ starting' # NoCall
    /\ starting'.name = name
    /\ dpc' = "stagger"
    /\ HasModule(Registry, name)

\* C29: Launch failure: a startModule call whose launch fails starts no
\* process, sends no start message, is not counted as a restart, and leaves
\* the module's registry state error; from then on every recovery pass
\* takes the module in its turn and calls startModule for it again, until a
\* launch of it succeeds.
C29_FailedLaunchRetried ==
    [][/\ \A name \in ModuleNames :
             LaunchFails(name) =>
                /\ StatusOf(Registry', name) = "error"
                /\ ports' = ports
                /\ Len(procs') = Len(procs)
                /\ moduleRestarts' = moduleRestarts
                /\ name \in failedStarts'
       /\ (/\ dpc = "recover"
           /\ queue # <<>>
           /\ errorLog' = errorLog
           /\ Head(queue).name \in failedStarts) => AttemptsStart(Head(queue))]_vars

\* ========================================================================
\* main() from its launch to the entry of the main loop: discovery,
\* registration of the built-in modules, startInitialModules
\* ========================================================================
\* the registry file the daemon finds: absent, or holding a module the
\* operator registered earlier, below, at or above the built-in priority
FreshRegistries ==
    {[exists |-> FALSE, modules |-> <<>>]} \cup
    {registerModule([exists |-> FALSE, modules |-> <<>>], <<>>, 0, "money-farmer",
                    ScriptPathOf("money-farmer"), config, priority,
                    ControlPortOf("money-farmer"), StatusPortOf("money-farmer"),
                    TRUE).file :
        config \in ConfigChoices,
        priority \in {BuiltinPriority - 10, BuiltinPriority, BuiltinPriority + 10}}

\* what an earlier run of the daemon left of a module it started: the record
\* with the pid of the module's process (the first of the process table),
\* state running
LeftoverRegistries ==
    {updateModuleStatus(
         updateModulePID(file, <<>>, 0, "money-farmer", 1, TRUE).file,
         <<>>, 0, "money-farmer", "running", TRUE).file :
        file \in {f \in FreshRegistries :
                     f.exists /\ f.modules[1].config.enabled}}

\* and the module's process, still running or gone
LeftoverProcs ==
    {<<[module |-> "money-farmer",
        controlPort |-> ControlPortOf("money-farmer"),
        statusPort |-> StatusPortOf("money-farmer"),
        alive |-> alive,
        isActive |-> TRUE]>> : alive \in BOOLEAN}

StartupRegistries == FreshRegistries \cup LeftoverRegistries

StartupInit ==
    /\ pool = <<>> /\ requests = <<>> /\ allocations = <<>>
    /\ remainingPool = <<>> /\ apc = "idle"
    /\ SysIdle
    /\ links \in InitialLinkTables
    /\ hostKind = [h \in NetHosts |-> "plain"]
    /\ rootAccess = {"home"}
    /\ networkFile = <<>>
    /\ scan = NoScan
    /\ netResult = NoResult
    /\ lastNetworkScan = 0
    /\ registryFile \in StartupRegistries
    /\ defaultRegistry = <<>>
    /\ now = 0
    /\ ret = FALSE
    /\ lastCall = [op |-> "none", name |-> "", replaced |-> FALSE]
    /\ calls = 0
    /\ dpc = "discover"
    /\ queue = <<>>
    /\ starting = NoCall
    /\ ports = [p \in PortNumbers |-> <<>>]
    /\ procs \in IF registryFile \in LeftoverRegistries THEN LeftoverProcs ELSE {<<>>}
    /\ enableAutoRecovery = FALSE
    /\ moduleRestarts = 0
    /\ errorLog = 0
    /\ failedStarts = {}

\* discoverAndPrepareNetwork: updateNetworkState scans, roots what it can
\* and saves the network state; main has no try around it
DiscoverAndPrepareNetwork ==
    /\ dpc = "discover"
    /\ \E gained \in SUBSET (HostsOf(scanEntireNetwork(links)) \ rootAccess) :
          LET r == updateNetworkState(links, rootAccess, hostKind, networkFile,
                                      gained, TRUE)
          IN /\ rootAccess' = r.roots
             /\ networkFile' = r.file
             /\ netResult' = [op |-> "updateNetworkState", result |-> r]
             /\ dpc' = IF r.threw THEN "exited" ELSE "boot"
    /\ UNCHANGED <<links, hostKind, scan, lastNetworkScan, regVars, queue, starting, ports, procs,
                   enableAutoRecovery, moduleRestarts, errorLog, failedStarts,
                   allocVars, sysVars>>

StartupNext ==
    \/ DiscoverAndPrepareNetwork
    \/ Boot
    \/ StartInitialStep
    \/ LaunchAfterKill
    \/ SendStart
    \/ StaggerDone
    \/ ModuleStep
    \/ ProcessDies

StartupSpec == StartupInit /\ [][StartupNext]_vars

PriorityOf(name) == GetModule(Registry, name).priority

\* the step launches a module process
Launches == Len(procs') > Len(procs)

\* the module whose startModule call is at its launch: the head of the
\* snapshot, or after the wait that follows a kill the module of the call
Started == IF dpc = "killed" THEN starting.name ELSE Head(queue).name

\* the registered modules startInitialModules has taken before this one
TakenBefore ==
    {name \in ModuleNames :
        /\ HasModule(Registry, name)
        /\ name # Started
        /\ \A k \in 1..Len(queue) : queue[k].name # name}

\* C28: Start-up ordering: no module is launched before the network state
\* has been discovered and saved and the built-in module is registered; the
\* modules are then taken in non-increasing priority order, one start at a
\* time: a launch sets the module's state to starting, the start message
\* follows it before the next module's turn; a module whose configuration
\* has enabled false is passed over; when the main loop is entered every
\* enabled module has had its start and no disabled one has.
C28_StartupOrder ==
    [][/\ Launches =>
             /\ \/ dpc = "initial" /\ starting = NoCall
                \/ dpc = "killed" /\ starting.caller = "initial"
             /\ networkFile # <<>>
             /\ HasModule(Registry, BuiltinName)
             /\ GetModule(Registry, Started).config.enabled
             /\ Len(procs') = Len(procs) + 1
             /\ procs'[Len(procs')].module = Started
             /\ StatusOf(Registry', Started) = "starting"
             /\ dpc' = "launched"
             /\ \A k \in 1..Len(queue) : queue[k].priority <= PriorityOf(Started)
             /\ \A name \in TakenBefore : PriorityOf(name) >= PriorityOf(Started)
       /\ (dpc = "initial" /\ queue # <<>> /\ dpc' # dpc) =>
             /\ Head(queue).config.enabled
             /\ starting'.name = Head(queue).name
             /\ \A k \in 1..Len(queue) : queue[k].priority <= Head(queue).priority
       /\ (dpc = "killed" /\ dpc' # dpc) =>
             (dpc' \in {"launched", "stagger"} /\ starting'.name = starting.name)
       /\ (dpc = "launched" /\ dpc' # dpc) =>
             /\ dpc' = "stagger"
             /\ Last(ports'[starting.controlPort]).data.type = "start"
       /\ (dpc = "initial" /\ queue # <<>> /\ ~Head(queue).config.enabled) =>
             (dpc' = dpc /\ procs' = procs /\ ports' = ports /\ Registry' = Registry)
       /\ dpc' = "scan" =>
             \A name \in ModuleNames :
                 HasModule(Registry', name) =>
                    IF GetModule(Registry', name).config.enabled
                    THEN StatusOf(Registry', name) \in {"starting", "error"}
                    ELSE /\ StatusOf(Registry', name) = "stopped"
                         /\ \A pid \in 1..Len(procs') : procs'[pid].module # name]_vars

\* the module registered first has the lower priority and was started second,
\* after the kill of the process an earlier run left and the wait that
\* follows it; both starts are complete and the main loop is about to begin
C28_Witness ==
    /\ dpc = "scan"
    /\ networkFile # <<>>
    /\ Len(procs) = 3
    /\ ~procs[1].alive
    /\ procs[1].module = "money-farmer"
    /\ procs[2].module = BuiltinName
    /\ procs[3].module = "money-farmer"
    /\ procs[3].alive
    /\ Registry[1].name = "money-farmer"
    /\ GetModule(Registry, "money-farmer").pid = 3
    /\ PriorityOf("money-farmer") < PriorityOf(BuiltinName)

\* ========================================================================
\* Steps 2 and 4 of the main loop with the resource request cache:
\* collectModuleStatuses, gatherResourceRequests, performResourceAllocation
\* (daemon.ts), performAllocation (core/resource-allocator.ts)
\* ========================================================================
\* DEFAULT_CONFIG.reserveHomeRam
ReserveHomeRam == 32

\* gatherResourceRequests: minRamRequired || 4, optimalRamRequired || 256
DefaultMinRam == 4
DefaultMaxRam == 256

\* a status update that carries a resource request
StatusUpdateWithRequest(isActive, request) ==
    [type |-> "status_update",
     data |-> [isActive |-> isActive, resourceRequest |-> request]]

\* the request a module posts for itself (no preferredServers: the empty list)
LiveRequest(name) ==
    [moduleName |-> name, priority |-> 95, minRam |-> 2, maxRam |-> 6,
     preferredServers |-> <<>>]

\* Map.prototype.set on the list of the map's entries: a known key keeps its
\* place, a new key goes to the end
MapSet(entries, key, value) ==
    IF \E k \in 1..Len(entries) : entries[k].key = key
    THEN [k \in 1..Len(entries) |->
            IF entries[k].key = key THEN [key |-> key, value |-> value]
            ELSE entries[k]]
    ELSE Append(entries, [key |-> key, value |-> value])

\* collectModuleStatuses: if (message.data.resourceRequest) cache.set(...)
RECURSIVE CacheRequests(_, _, _)
CacheRequests(cache, moduleName, messages) ==
    IF messages = <<>> THEN cache
    ELSE LET data == Head(messages).data
             next == IF "resourceRequest" \in DOMAIN data
                     THEN MapSet(cache, moduleName, data.resourceRequest)
                     ELSE cache
         IN CacheRequests(next, moduleName, Tail(messages))

\* the loop of collectModuleStatuses as far as the cache goes
RECURSIVE CacheLoop(_, _, _, _)
CacheLoop(snapshot, k, cache, pts) ==
    IF k > Len(snapshot) THEN cache
    ELSE IF snapshot[k].statusPort = 0 THEN CacheLoop(snapshot, k + 1, cache, pts)
    ELSE CacheLoop(snapshot, k + 1,
                   CacheRequests(cache, snapshot[k].name,
                                 collectStatusMessages(pts, snapshot[k].statusPort)),
                   pts)

\* gatherResourceRequests: which modules get a default request
WantsResourcesAnyState(moduleData) == TRUE

WantsResources(moduleData) == moduleData.status \in {"running", "starting"}

\* x || fallback on a number
OrDefault(x, fallback) == IF x = 0 THEN fallback ELSE x

DefaultRequest(moduleData) ==
    [moduleName |-> moduleData.name,
     priority |-> moduleData.priority,
     minRam |-> OrDefault(moduleData.config.minRamRequired, DefaultMinRam),
     maxRam |-> OrDefault(moduleData.config.optimalRamRequired, DefaultMaxRam),
     preferredServers |-> <<>>]

RECURSIVE DefaultRequests(_)
DefaultRequests(modules) ==
    IF modules = <<>> THEN <<>>
    ELSE (IF WantsResources(Head(modules)) THEN <<DefaultRequest(Head(modules))>>
          ELSE <<>>) \o DefaultRequests(Tail(modules))

gatherCachedAndDefaults(cache, file, defaults) ==
    [k \in 1..Len(cache) |-> cache[k].value]
       \o DefaultRequests(getAllModules(file, defaults))

gatherResourceRequests(cache, file, defaults) ==
    LET cached == [k \in 1..Len(cache) |-> cache[k].value]
    IN IF Len(cached) = 0 THEN DefaultRequests(getAllModules(file, defaults))
       ELSE cached

\* performAllocation: build the pool, allocate, save the state
performAllocation(reqs, reserveHomeRam) ==
    LET Saved(p, allocs) == [allocations |-> allocs, pool |-> p, file |-> <<allocs>>]
        Built(p) == Saved(p, allocateResources(p, reqs).allocations)
    IN Built(buildResourcePool(reserveHomeRam))

\* loadAllocationState: [] when the file is absent
loadAllocationState(file) == IF file = <<>> THEN <<>> ELSE file[1]

\* sendAllocationToModule
sendAllocationToModule(pts, file, defaults, t, allocation) ==
    LET found == getModuleStatus(file, defaults, allocation.moduleName)
    IN IF found = Null \/ found[1].controlPort = 0 THEN pts
       ELSE sendControlMessage(pts, found[1].controlPort, t,
                               [type |-> "resource_allocation",
                                allocation |-> allocation])

\* for (const allocation of result.allocations) await sendAllocationToModule
RECURSIVE SendAllocations(_, _, _, _, _)
SendAllocations(pts, file, defaults, t, allocs) ==
    IF allocs = <<>> THEN pts
    ELSE SendAllocations(sendAllocationToModule(pts, file, defaults, t, Head(allocs)),
                         file, defaults, t, Tail(allocs))

\* performResourceAllocation: nothing is done when no request was gathered
performResourceAllocation(cache, file, defaults, pts, t, stored) ==
    LET Allocated(reqs, result) ==
            [requests |-> reqs, result |-> <<result.allocations>>,
             ports |-> SendAllocations(pts, file, defaults, t, result.allocations),
             file |-> result.file]
        WithRequests(reqs) ==
            IF Len(reqs) = 0
            THEN [requests |-> reqs, result |-> Null, ports |-> pts, file |-> stored]
            ELSE Allocated(reqs, performAllocation(reqs, ReserveHomeRam))
    IN WithRequests(gatherResourceRequests(cache, file, defaults))

\* ---- the loop ------------------------------------------------------------
\* module configurations: the built-in one, one with a small optimum, one
\* without RAM figures, a disabled one
LoopConfigs ==
    {BuiltinConfig,
     [enabled |-> TRUE, minRamRequired |-> 4, optimalRamRequired |-> 8],
     [enabled |-> TRUE, minRamRequired |-> 0, optimalRamRequired |-> 0],
     [enabled |-> FALSE, minRamRequired |-> 0, optimalRamRequired |-> 8]}

\* home is linked to every other server
StarLinks ==
    [h \in NetHosts |-> IF h = "home" THEN ListOf(NetHosts \ {"home"}, 1)
                        ELSE <<"home">>]

\* the modules startInitialModules starts, in the order of their starts: the
\* operator's module, of higher priority, if it is enabled, then the built-in
LoopStarted(withOther, config) ==
    (IF withOther /\ config.enabled THEN <<"money-farmer">> ELSE <<>>)
       \o <<BuiltinName>>

\* the registry when main() enters its loop: the built-in module registered
\* after the module of the operator's, if any; every started module has the
\* pid of its process and state starting
LoopRegistry(withOther, config) ==
    LET none == [file |-> [exists |-> FALSE, modules |-> <<>>], defaults |-> <<>>]
        r1 == IF withOther
              THEN registerModule(none.file, none.defaults, 0, "money-farmer",
                                  ScriptPathOf("money-farmer"), config, 90,
                                  ControlPortOf("money-farmer"),
                                  StatusPortOf("money-farmer"), TRUE)
              ELSE none
        r2 == registerModule(r1.file, r1.defaults, 0, BuiltinName,
                             ScriptPathOf(BuiltinName), BuiltinConfig, BuiltinPriority,
                             ControlPortOf(BuiltinName), StatusPortOf(BuiltinName), TRUE)
        started == LoopStarted(withOther, config)
        Start(r, pid) ==
            LET withPid == updateModulePID(r.file, r.defaults, 0, started[pid], pid, TRUE)
            IN updateModuleStatus(withPid.file, withPid.defaults, 0, started[pid],
                                  "starting", TRUE)
        r3 == Start(r2, 1)
    IN (IF Len(started) > 1 THEN Start(r3, Len(started)) ELSE r3).file

\* the processes of the started modules; restored: the modules whose
\* initializeState found the state an earlier run left while active
LoopProcs(withOther, config, restored) ==
    LET started == LoopStarted(withOther, config)
    IN [pid \in 1..Len(started) |->
           [module |-> started[pid],
            controlPort |-> ControlPortOf(started[pid]),
            statusPort |-> StatusPortOf(started[pid]),
            alive |-> TRUE,
            isActive |-> started[pid] \in restored]]

\* the ports: each started module's control port holds its start message
LoopPorts(withOther, config) ==
    LET started == LoopStarted(withOther, config)
    IN [p \in PortNumbers |->
           IF \E pid \in 1..Len(started) : p = ControlPortOf(started[pid])
           THEN sendMessage(<<>>, 0, [type |-> "start"])
           ELSE <<>>]

\* the network state discoverAndPrepareNetwork saved
LoopNetworkFile ==
    updateNetworkState(StarLinks, NetHosts, [h \in NetHosts |-> "plain"], <<>>, {},
                       TRUE).file

LoopRamChoices(h) ==
    IF h = "home"
    THEN {[totalRam |-> 64, usedRam |-> 0], [totalRam |-> 64, usedRam |-> 40]}
    ELSE IF h = "n1" THEN {[totalRam |-> 8, usedRam |-> 0]}
    ELSE {[totalRam |-> 0, usedRam |-> 0], [totalRam |-> 16, usedRam |-> 4]}

AllocationInit ==
    /\ pool = <<>> /\ requests = <<>> /\ allocations = <<>>
    /\ remainingPool = <<>> /\ apc = "idle"
    /\ links = StarLinks
    /\ hostKind = [h \in NetHosts |-> "plain"]
    /\ rootAccess = NetHosts
    /\ networkFile = LoopNetworkFile
    /\ scan = NoScan
    /\ netResult = NoResult
    /\ lastNetworkScan = 0
    /\ serverRam \in {f \in [NetHosts -> UNION {LoopRamChoices(h) : h \in NetHosts}] :
                         \A h \in NetHosts : f[h] \in LoopRamChoices(h)}
    /\ logFiles = [main |-> <<>>, component |-> <<>>]
    /\ resourceRequestCache = <<>>
    /\ allocationFile = <<>>
    /\ \E withOther \in BOOLEAN, config \in LoopConfigs :
          /\ registryFile = LoopRegistry(withOther, config)
          /\ ports = LoopPorts(withOther, config)
          /\ \E restored \in SUBSET ModuleNames :
                procs = LoopProcs(withOther, config, restored)
    /\ defaultRegistry = <<>>
    /\ now = 0
    /\ ret = FALSE
    /\ lastCall = [op |-> "none", requests |-> <<>>, result |-> Null]
    /\ calls = 0
    /\ dpc = "collect"
    /\ queue = <<>>
    /\ starting = NoCall
    /\ enableAutoRecovery = FALSE   \* recoverFailedModules does nothing
    /\ moduleRestarts = 0
    /\ errorLog = 0
    /\ failedStarts = {}

AllocationUnchanged ==
    UNCHANGED <<defaultRegistry, ret, calls, queue, starting,
                enableAutoRecovery, moduleRestarts, errorLog, failedStarts,
                allocVars, netVars, serverRam, logFiles>>

\* the process of a started module runs one iteration of its loop while the
\* daemon sleeps, any number of times per sleep: it drains its control port
\* and posts a status update, with or without a resource request, whatever
\* its status port holds
ModuleReports ==
    /\ dpc = "sleep"
    /\ \E pid \in 1..Len(procs), withRequest \in BOOLEAN :
          LET p == procs[pid]
              isActive == HandleControlMessages(p.isActive,
                                                receiveAll(ports[p.controlPort]))
              message == IF withRequest
                         THEN StatusUpdateWithRequest(isActive, LiveRequest(p.module))
                         ELSE StatusUpdate(isActive)
          IN /\ p.alive
             /\ procs' = [procs EXCEPT ![pid].isActive = isActive]
             /\ ports' = [ports EXCEPT ![p.controlPort] = <<>>,
                                       ![p.statusPort] = sendMessage(@, now, message)]
    /\ UNCHANGED <<registryFile, now, lastCall, dpc, resourceRequestCache,
                   allocationFile>>
    /\ AllocationUnchanged

\* collectModuleStatuses with its cache
CollectAndCache ==
    /\ dpc = "collect"
    /\ LET r == collectModuleStatuses(registryFile, defaultRegistry, ports, now)
       IN /\ registryFile' = r.file
          /\ ports' = r.ports
    /\ resourceRequestCache' =
          CacheLoop(getAllModules(registryFile, defaultRegistry), 1,
                    resourceRequestCache, ports)
    /\ dpc' = "allocate"
    /\ UNCHANGED <<now, lastCall, allocationFile, procs>>
    /\ AllocationUnchanged

\* performResourceAllocation
PerformResourceAllocation ==
    /\ dpc = "allocate"
    /\ \E r \in {performResourceAllocation(resourceRequestCache, registryFile,
                                           defaultRegistry, ports, now, allocationFile)} :
          /\ ports' = r.ports
          /\ allocationFile' = r.file
          /\ lastCall' = [op |-> "performResourceAllocation",
                          requests |-> r.requests, result |-> r.result]
    /\ dpc' = "sleep"
    /\ UNCHANGED <<registryFile, now, resourceRequestCache, procs>>
    /\ AllocationUnchanged

\* the loop is followed until a module that never reported has timed out
LoopHorizon == ModuleStatusTimeout + UpdateInterval

\* await ns.sleep(config.updateInterval)
AllocationSleep ==
    /\ dpc = "sleep"
    /\ now < LoopHorizon
    /\ now' = now + UpdateInterval
    /\ dpc' = "collect"
    /\ UNCHANGED <<registryFile, ports, procs, lastCall, resourceRequestCache,
                   allocationFile>>
    /\ AllocationUnchanged

AllocationNext ==
    \/ ModuleReports
    \/ CollectAndCache
    \/ PerformResourceAllocation
    \/ AllocationSleep

AllocationSpec == AllocationInit /\ [][AllocationNext]_vars

\* the cached requests in the order of the cache
CachedRequests == [k \in 1..Len(resourceRequestCache) |-> resourceRequestCache[k].value]

\* the requests gathered by the allocation step that just ran
Gathered == lastCall.requests

\* C26: the allocation step gathers the cached live requests when there are
\* any; only with an empty cache does it make up requests, exactly one for
\* each module that is running or starting, with the module's registered
\* priority and its registered minimum and optimal RAM (4 and 256 where none
\* is registered), and none for a stopped, paused or failed module.
C26_GatherRequests ==
    (dpc = "sleep" /\ lastCall.op = "performResourceAllocation") =>
        IF resourceRequestCache # <<>> THEN Gathered = CachedRequests
        ELSE /\ \A k \in 1..Len(Registry) :
                   LET m == Registry[k]
                       mine == {j \in 1..Len(Gathered) : Gathered[j].moduleName = m.name}
                   IN IF m.status \in {"running", "starting"}
                      THEN /\ Cardinality(mine) = 1
                           /\ \A j \in mine :
                                 /\ Gathered[j].priority = m.priority
                                 /\ Gathered[j].minRam =
                                       (IF m.config.minRamRequired # 0
                                        THEN m.config.minRamRequired ELSE DefaultMinRam)
                                 /\ Gathered[j].maxRam =
                                       (IF m.config.optimalRamRequired # 0
                                        THEN m.config.optimalRamRequired ELSE DefaultMaxRam)
                      ELSE mine = {}
             /\ \A j \in 1..Len(Gathered) :
                   \E k \in 1..Len(Registry) : Registry[k].name = Gathered[j].moduleName

\* an allocation step with an empty cache that made up a request for a running
\* module and none for a module that had timed out
C26_Witness ==
    /\ dpc = "sleep"
    /\ lastCall.op = "performResourceAllocation"
    /\ resourceRequestCache = <<>>
    /\ Len(Gathered) = 1
    /\ \E k \in 1..Len(Registry) : Registry[k].status = "running"
    /\ \E k \in 1..Len(Registry) : Registry[k].status = "error"

\* an allocation step that used the cache although a module was running
C26_WitnessCached ==
    /\ dpc = "sleep"
    /\ lastCall.op = "performResourceAllocation"
    /\ Len(resourceRequestCache) = 1
    /\ Len(Registry) = 2
    /\ \A k \in 1..Len(Registry) : Registry[k].status = "running"

\* C27: after every allocation step the persisted allocation list is the
\* allocator's output for the requests of that tick, every module that got an
\* allocation has had exactly one resource_allocation message pushed to its
\* control port, and no other control port has changed.
C27_AllocationPublished ==
    [][(dpc = "allocate" /\ dpc' = "sleep") =>
          LET output == allocateResources(buildResourcePool(ReserveHomeRam),
                                          lastCall'.requests).allocations
              Mine(name) == {j \in 1..Len(output) : output[j].moduleName = name}
          IN /\ loadAllocationState(allocationFile') = output
             /\ \A k \in 1..Len(Registry) :
                   LET m == Registry[k]
                   IN IF Mine(m.name) # {}
                      THEN \E j \in Mine(m.name) :
                              ports'[m.controlPort] =
                                 sendMessage(ports[m.controlPort], now,
                                             [type |-> "resource_allocation",
                                              allocation |-> output[j]])
                      ELSE ports'[m.controlPort] = ports[m.controlPort]]_vars

\* ========================================================================
\* First scan
\* ========================================================================
\* no snapshot is stored, or the stored one is rejected for its allServers
NoPreviousSnapshot == networkFile = <<>> \/ networkFile[1].allServers = Missing

\* C31: without a stored snapshot, or with one that is rejected as invalid,
\* detectNetworkChanges returns, reports every host of the current scan as a
\* new server and every rooted host of the current scan as newly rooted, each
\* once, and counts the hosts of the scan as the changes.
C31_FirstScan ==
    [][(/\ calls' # calls
        /\ netResult'.op \in {"detectNetworkChanges", "updateNetworkState"}
        /\ NoPreviousSnapshot) =>
          /\ ~netResult'.result.threw
          /\ LET current == ReachableFrom(links, {"home"})
                 changes == ChangesReturned
             IN /\ HostsOf(changes.newServers) = current
                /\ HostsOf(changes.newlyRooted) = current \cap rootAccess'
                /\ NoRepeats(changes.newServers)
                /\ NoRepeats(changes.newlyRooted)
                /\ changes.totalChanges = Cardinality(current)]_vars

\* detectNetworkChanges has run on a stored snapshot that lost allServers, with
\* three servers in the network of which some are not rooted
C31_Witness ==
    /\ netResult.op = "detectNetworkChanges"
    /\ networkFile # <<>>
    /\ networkFile[1].allServers = Missing
    /\ ~netResult.result.threw
    /\ Len(netResult.result.newServers) = 3
    /\ Len(netResult.result.newlyRooted) < 3
    /\ netResult.result.totalChanges = 3

\* ========================================================================
\* main() of daemon.ts: the start-up of the modules and the control loop,
\* with the periodic network rescan and the resource allocation of each
\* iteration
\* ========================================================================
\* the servers' RAM the daemon finds: every server with room, or none with any
LoopServerRam ==
    {[h \in NetHosts |-> [totalRam |-> 64, usedRam |-> 0]],
     [h \in NetHosts |-> [totalRam |-> 0, usedRam |-> 0]]}

\* Initial state: the daemon script has been launched and has discovered the
\* network (home linked to the other servers, all rooted) and saved its state.
\* The registry file is absent, or holds a module the operator registered
\* earlier.
Init ==
    /\ pool = <<>> /\ requests = <<>> /\ allocations = <<>>
    /\ remainingPool = <<>> /\ apc = "idle"
    /\ links = StarLinks
    /\ hostKind = [h \in NetHosts |-> "plain"]
    /\ rootAccess = NetHosts
    /\ networkFile = updateNetworkState(StarLinks, NetHosts,
                                        [h \in NetHosts |-> "plain"], <<>>, {},
                                        TRUE).file
    /\ scan = NoScan
    /\ netResult = NoResult
    /\ lastNetworkScan = 0
    /\ serverRam \in LoopServerRam
    /\ logFiles = [main |-> <<>>, component |-> <<>>]
    /\ resourceRequestCache = <<>>
    /\ allocationFile = <<>>
    /\ registryFile \in InitialRegistries
    /\ defaultRegistry = <<>>
    /\ now = ClockAtLaunch
    /\ ret = FALSE
    /\ lastCall = [op |-> "none", name |-> "", replaced |-> FALSE]
    /\ calls = 0
    /\ dpc = "boot"
    /\ queue = <<>>
    /\ starting = NoCall
    /\ ports = [p \in PortNumbers |-> <<>>]
    /\ procs = <<>>
    /\ enableAutoRecovery \in BOOLEAN
    /\ moduleRestarts = 0
    /\ errorLog = 0
    /\ failedStarts = {}

\* if (Date.now() - state.lastNetworkScan > config.networkScanInterval)
\*     await updateNetworkStateInternal(ns, state)
\* an exception of updateNetworkState passes control to the catch block
Scan ==
    /\ dpc = "scan"
    /\ IF now - lastNetworkScan > NetworkScanInterval
       THEN \E gained \in SUBSET (HostsOf(scanEntireNetwork(links)) \ rootAccess) :
              \E r \in {updateNetworkState(links, rootAccess, hostKind, networkFile,
                                           gained, TRUE)} :
                 /\ rootAccess' = r.roots
                 /\ networkFile' = r.file
                 /\ netResult' = [op |-> "updateNetworkState", result |-> r]
                 /\ IF r.threw
                    THEN /\ dpc' = OnException
                         /\ errorLog' = errorLog + 1
                         /\ lastNetworkScan' = lastNetworkScan
                    ELSE /\ dpc' = "collect"
                         /\ errorLog' = errorLog
                         /\ lastNetworkScan' = now
       ELSE /\ dpc' = "collect"
            /\ UNCHANGED <<rootAccess, networkFile, netResult, errorLog,
                           lastNetworkScan>>
    /\ UNCHANGED <<registryFile, defaultRegistry, now, ret, lastCall, calls, queue,
                   starting, ports, procs, enableAutoRecovery, moduleRestarts,
                   failedStarts, allocVars, sysVars, links, hostKind, scan>>

\* collectModuleStatuses, with the requests it caches
CollectModuleStatuses ==
    /\ dpc = "collect"
    /\ \E r \in {collectModuleStatuses(registryFile, defaultRegistry, ports, now)} :
          /\ registryFile' = r.file
          /\ defaultRegistry' = r.defaults
          /\ ports' = r.ports
    /\ resourceRequestCache' =
          CacheLoop(getAllModules(registryFile, defaultRegistry), 1,
                    resourceRequestCache, ports)
    /\ dpc' = "recoverBegin"
    /\ UNCHANGED <<now, ret, lastCall, calls, queue, starting, procs,
                   enableAutoRecovery, moduleRestarts, errorLog, failedStarts,
                   allocVars, serverRam, logFiles, allocationFile, netVars>>

\* performResourceAllocation: it saves the allocations and sends each module
\* its own; it does not write the registry
Allocate ==
    /\ dpc = "allocate"
    /\ \E r \in {performResourceAllocation(resourceRequestCache, registryFile,
                                           defaultRegistry, ports, now, allocationFile)} :
          /\ ports' = r.ports
          /\ allocationFile' = r.file
    /\ dpc' = "stats"
    /\ UNCHANGED <<registryFile, defaultRegistry, now, ret, lastCall, calls, queue,
                   starting, procs, enableAutoRecovery, moduleRestarts,
                   errorLog, failedStarts, allocVars, serverRam, logFiles,
                   resourceRequestCache, netVars>>

\* the daemon's own steps
DaemonStep ==
    \/ Boot
    \/ StartInitialStep
    \/ LaunchAfterKill
    \/ SendStart
    \/ StaggerDone
    \/ Scan
    \/ CollectModuleStatuses
    \/ RecoverBegin
    \/ RecoverStep
    \/ Allocate
    \/ UpdateStatistics
    \/ Sleep

Next ==
    \/ DaemonStep
    \/ Throw
    \/ CatchSleep
    \/ ModuleStep
    \/ ProcessDies

Spec == Init /\ [][Next]_vars

\* The daemon on a fresh installation, with an operator who registers,
\* re-registers and unregisters modules while it runs.
OperatorInit ==
    /\ Init
    /\ ~registryFile.exists

OperatorNext ==
    \/ DaemonStep
    \/ ModuleStep
    \/ ProcessDies
    \/ UserRegisters
    \/ UserUnregisters

OperatorSpec == OperatorInit /\ [][OperatorNext]_vars

\* ========================================================================
\* One status pass over ports that hold several updates: collectModuleStatuses
\* (daemon.ts) at the entry of the main loop and after a long sleep
\* ========================================================================
\* the most status updates a module has queued when the pass starts
MaxQueued == 2

\* another request a module can post for itself
LargerRequest(name) == [LiveRequest(name) EXCEPT !.maxRam = 12]

\* the status updates of module name
UpdatesOf(name) ==
    {StatusUpdate(TRUE), StatusUpdate(FALSE),
     StatusUpdateWithRequest(TRUE, LiveRequest(name)),
     StatusUpdateWithRequest(FALSE, LargerRequest(name))}

\* what module name can have left on its status port: envelopes of sendMessage
QueuedUpdates(name) ==
    UNION {[1..n -> [timestamp : {0}, data : UpdatesOf(name)]] : n \in 0..MaxQueued}

StatusInit ==
    /\ pool = <<>> /\ requests = <<>> /\ allocations = <<>>
    /\ remainingPool = <<>> /\ apc = "idle"
    /\ links = StarLinks
    /\ hostKind = [h \in NetHosts |-> "plain"]
    /\ rootAccess = NetHosts
    /\ networkFile = LoopNetworkFile
    /\ scan = NoScan
    /\ netResult = NoResult
    /\ lastNetworkScan = 0
    /\ serverRam = [h \in NetHosts |-> [totalRam |-> 64, usedRam |-> 0]]
    /\ logFiles = [main |-> <<>>, component |-> <<>>]
    /\ resourceRequestCache = <<>>
    /\ allocationFile = <<>>
    /\ \E withOther \in BOOLEAN, config \in LoopConfigs :
          /\ registryFile = LoopRegistry(withOther, config)
          /\ \E restored \in SUBSET ModuleNames :
                procs = LoopProcs(withOther, config, restored)
    /\ defaultRegistry = <<>>
    /\ now \in {0, LoopHorizon}
    /\ ret = FALSE
    /\ lastCall = [op |-> "none", requests |-> <<>>, result |-> Null]
    /\ calls = 0
    /\ dpc = "collect"
    /\ queue = <<>>
    /\ starting = NoCall
    /\ \E queued \in [ModuleNames -> UNION {QueuedUpdates(name) : name \in ModuleNames}] :
          /\ \A name \in ModuleNames :
                /\ queued[name] \in QueuedUpdates(name)
                /\ (\A k \in 1..Len(Registry) :
                       Registry[k].name = name => Registry[k].status = "stopped")
                      => queued[name] = <<>>
          /\ ports = [port \in PortNumbers |->
                        IF \E name \in ModuleNames : port = StatusPortOf(name)
                        THEN queued[CHOOSE name \in ModuleNames :
                                       port = StatusPortOf(name)]
                        ELSE <<>>]
    /\ enableAutoRecovery = FALSE
    /\ moduleRestarts = 0
    /\ errorLog = 0
    /\ failedStarts = {}

StatusNext ==
    \/ CollectAndCache
    \/ PerformResourceAllocation

StatusSpec == StatusInit /\ [][StatusNext]_vars

\* the updates drained from the status port of a module by the pass being taken
Drained(moduleData) == receiveAll(ports[moduleData.statusPort])

\* the cache entries of a module
CacheOf(cache, name) == {k \in 1..Len(cache) : cache[k].key = name}

\* C32: after a status pass that drained at least one status update from a
\* module's port, the module's state is running if the last update drained has
\* isActive true and paused otherwise, its lastStatusUpdate is the time of the
\* pass, and the cache holds under the module's name the request of the last
\* update that carried one (what it held before when none did).
C32_StatusTranslation ==
    [][(dpc = "collect" /\ dpc' = "allocate") =>
          \A k \in 1..Len(Registry) :
              LET m == Registry[k]
                  drained == Drained(m)
                  carrying == {j \in 1..Len(drained) :
                                  "resourceRequest" \in DOMAIN drained[j].data}
              IN drained # <<>> =>
                    /\ StatusOf(Registry', m.name) =
                          (IF drained[Len(drained)].data.isActive
                           THEN "running" ELSE "paused")
                    /\ Registry'[k].lastStatusUpdate = now
                    /\ ports'[m.statusPort] = <<>>
                    /\ IF carrying = {}
                       THEN \A j \in CacheOf(resourceRequestCache', m.name) :
                               /\ j \in CacheOf(resourceRequestCache, m.name)
                               /\ resourceRequestCache'[j] = resourceRequestCache[j]
                       ELSE /\ Cardinality(CacheOf(resourceRequestCache', m.name)) = 1
                            /\ \A j \in CacheOf(resourceRequestCache', m.name) :
                                  resourceRequestCache'[j].value =
                                     drained[CHOOSE i \in carrying :
                                                \A h \in carrying : h <= i]
                                        .data.resourceRequest]_vars

\* a pass, taken after the status timeout had run out, drained an active update
\* with a request followed by an inactive one without: the module is paused,
\* stamped, and its request cached, while the silent module has timed out
C32_Witness ==
    /\ dpc = "allocate"
    /\ now = LoopHorizon
    /\ \E k \in 1..Len(Registry) :
          /\ Registry[k].status = "paused"
          /\ Registry[k].lastStatusUpdate = now
          /\ \E j \in CacheOf(resourceRequestCache, Registry[k].name) :
                resourceRequestCache[j].value = LiveRequest(Registry[k].name)
    /\ \E k \in 1..Len(Registry) : Registry[k].status = "error"

\* ========================================================================
\* The restart counter
\* ========================================================================
\* the step in which a startModule call made by recoverFailedModules returns
RecoveryAttemptReturns ==
    /\ dpc # "stagger"
    /\ dpc' = "stagger"
    /\ starting'.caller = "recover"

\* the call returns true: the start message has been sent
RecoverySucceeds ==
    /\ dpc = "launched"
    /\ dpc' = "stagger"
    /\ starting.caller = "recover"

\* C33 as claimed: every recovery attempt adds exactly one to moduleRestarts,
\* which never decreases and is left alone by the starts of the start-up.
C33_EveryAttemptCounted ==
    [][/\ moduleRestarts' >= moduleRestarts
       /\ RecoveryAttemptReturns => moduleRestarts' = moduleRestarts + 1
       /\ ~RecoveryAttemptReturns => moduleRestarts' = moduleRestarts]_vars

\* C33: every recovery attempt that succeeds adds exactly one to
\* moduleRestarts and one that fails adds nothing; the counter never decreases
\* and no other step, the starts of the start-up included, changes it.
C33_SuccessfulAttemptsCounted ==
    [][/\ moduleRestarts' >= moduleRestarts
       /\ RecoverySucceeds => moduleRestarts' = moduleRestarts + 1
       /\ ~RecoverySucceeds => moduleRestarts' = moduleRestarts
       /\ (RecoveryAttemptReturns /\ ~RecoverySucceeds) =>
             /\ starting'.name \in failedStarts'
             /\ moduleRestarts' = moduleRestarts]_vars

\* one recovery attempt has succeeded and a later one has just failed
C33_Witness ==
    /\ moduleRestarts = 1
    /\ dpc = "stagger"
    /\ starting.caller = "recover"
    /\ starting.name \in failedStarts
    /\ \E k \in 1..Len(Registry) : Registry[k].status \in {"starting", "running"}

\* ========================================================================
\* startModule and stopModule between status passes of the control loop
\* ========================================================================
\* step 2 of a loop iteration, taken while no start or stop is in progress
StatusPass ==
    /\ dpc = "idle"
    /\ LET r == collectModuleStatuses(registryFile, defaultRegistry, ports, now)
       IN /\ registryFile' = r.file
          /\ defaultRegistry' = r.defaults
          /\ ports' = r.ports
          /\ ports' # ports \/ registryFile' # registryFile
    /\ UNCHANGED <<now, ret, lastCall, calls, dpc, queue, starting, procs,
                   enableAutoRecovery, moduleRestarts, errorLog, failedStarts,
                   allocVars, sysVars, netVars>>

StopNext ==
    \/ LifecycleNext
    \/ StatusPass

StopSpec == LifecycleInit /\ [][StopNext]_vars

\* the last call made was a stopModule call, and it has returned true
StopCompleted ==
    /\ lastCall.op = "stopModule"
    /\ ret
    /\ dpc = "idle"

\* C34: from the return of stopModule until startModule is called, the module
\* is in state stopped, has no recorded pid and no live process, whatever
\* status passes are taken in between.
C34_StoppedUntilStarted ==
    StopCompleted =>
        /\ StatusOf(Registry, lastCall.name) = "stopped"
        /\ GetModule(Registry, lastCall.name).pid = NoPid
        /\ \A pid \in 1..Len(procs) :
              procs[pid].module = lastCall.name => ~procs[pid].alive

\* ========================================================================
\* The request cache over the ticks, with modules unregistered by the operator
\* ========================================================================
EvictionNext ==
    \/ AllocationNext
    \/ UserUnregisters

EvictionSpec == AllocationInit /\ [][EvictionNext]_vars

\* C35: no step removes or moves an entry of the request cache, and from the
\* moment it holds an entry every allocation step hands the allocator exactly
\* the cached requests, in cache order, whatever the state of their modules
\* and whether or not they are still registered, with no default request for
\* any other module.
C35_CacheNeverEvicted ==
    [][/\ Len(resourceRequestCache') >= Len(resourceRequestCache)
       /\ \A k \in 1..Len(resourceRequestCache) :
             resourceRequestCache'[k].key = resourceRequestCache[k].key
       /\ (dpc = "allocate" /\ dpc' = "sleep" /\ resourceRequestCache # <<>>) =>
             /\ lastCall'.requests = CachedRequests
             /\ lastCall'.result =
                   <<allocateResources(buildResourcePool(ReserveHomeRam),
                                       CachedRequests).allocations>>]_vars

\* an allocation step has used the one cached request, of a module that has
\* since been unregistered, while a running module got no request
C35_Witness ==
    /\ dpc = "sleep"
    /\ lastCall.op = "performResourceAllocation"
    /\ Len(resourceRequestCache) = 1
    /\ ~HasModule(Registry, resourceRequestCache[1].key)
    /\ \E k \in 1..Len(Registry) : Registry[k].status = "running"
    /\ Len(lastCall.requests) = 1
    /\ lastCall.requests[1].moduleName = resourceRequestCache[1].key

\* ========================================================================
\* A restart of the daemon on the registry an earlier run left, and
\* registerModule on names that are registered
\* ========================================================================
\* channel ids an earlier version of the daemon gave the built-in module
OldPorts == [controlPort |-> 11, statusPort |-> 31]

\* the record the earlier run left for the built-in module
LeftRecord(file, config, ids, pid, status) ==
    LET r1 == registerModule(file, <<>>, 0, BuiltinName, ScriptPathOf(BuiltinName),
                             config, BuiltinPriority, ids.controlPort,
                             ids.statusPort, TRUE)
        r2 == updateModulePID(r1.file, r1.defaults, 0, BuiltinName, pid, TRUE)
        r3 == updateModuleAllocation(r2.file, r2.defaults, 0, BuiltinName,
                                     [field |-> "allocated", value |-> 8], TRUE)
    IN updateModuleStatus(r3.file, r3.defaults, 0, BuiltinName, status, TRUE).file

\* the process the earlier run left for pid
LeftProcess(pid, ids, alive) ==
    IF pid = NoPid THEN <<>>
    ELSE <<[module |-> BuiltinName, controlPort |-> ids.controlPort,
            statusPort |-> ids.statusPort, alive |-> alive, isActive |-> TRUE]>>

RestartInit ==
    /\ NetIdle
    /\ pool = <<>> /\ requests = <<>> /\ allocations = <<>>
    /\ remainingPool = <<>> /\ apc = "idle"
    /\ SysIdle
    /\ \E file \in InitialRegistries :
          \/ /\ registryFile = file
             /\ procs = <<>>
          \/ \E config \in ConfigChoices,
                ids \in {OldPorts, [controlPort |-> ControlPortOf(BuiltinName),
                                    statusPort |-> StatusPortOf(BuiltinName)]},
                pid \in {NoPid, 1},
                status \in {"stopped", "running", "error"},
                alive \in BOOLEAN :
                /\ (pid = NoPid => ~alive)
                /\ registryFile = LeftRecord(file, config, ids, pid, status)
                /\ procs = LeftProcess(pid, ids, alive)
    /\ defaultRegistry = <<>>
    /\ now = UpdateInterval
    /\ ret = FALSE
    /\ lastCall = [op |-> "none", name |-> "", replaced |-> FALSE]
    /\ calls = 0
    /\ dpc = "boot"
    /\ queue = <<>>
    /\ starting = NoCall
    /\ ports = [p \in PortNumbers |-> <<>>]
    /\ enableAutoRecovery = FALSE
    /\ moduleRestarts = 0
    /\ errorLog = 0
    /\ failedStarts = {}

RestartNext ==
    \/ Boot
    \/ StartInitialStep
    \/ LaunchAfterKill
    \/ SendStart
    \/ StaggerDone
    \/ ModuleStep
    \/ ProcessDies
    \/ UserRegisters

RestartSpec == RestartInit /\ [][RestartNext]_vars

\* the record registerModule leaves
FreshRecord(m, t) ==
    /\ m.status = "stopped"
    /\ m.pid = NoPid
    /\ m.ramAllocation.allocated = 0
    /\ m.ramAllocation.actual = 0
    /\ m.lastStatusUpdate = t

\* C36: a registerModule call that succeeds leaves a fresh record (state
\* stopped, no pid, allocated and actual 0, lastStatusUpdate now) whatever the
\* record of that name was before; registerBuiltInModules registers only a
\* built-in module that is not registered, and for one that is it keeps state,
\* pid, config and allocation and sets only its channel ids; it leaves every
\* other module's record alone.
C36_ReRegistrationReplaces ==
    [][/\ (calls' # calls /\ lastCall'.op = "registerModule" /\ ret') =>
             /\ HasModule(Registry', lastCall'.name)
             /\ FreshRecord(GetModule(Registry', lastCall'.name), now)
       /\ (dpc = "boot" /\ dpc' = "initial") =>
             /\ HasModule(Registry', BuiltinName)
             /\ GetModule(Registry', BuiltinName).controlPort = ControlPortOf(BuiltinName)
             /\ GetModule(Registry', BuiltinName).statusPort = StatusPortOf(BuiltinName)
             /\ ~HasModule(Registry, BuiltinName) =>
                   /\ FreshRecord(GetModule(Registry', BuiltinName), now)
                   /\ GetModule(Registry', BuiltinName).config = BuiltinConfig
             /\ \A k \in 1..Len(Registry) :
                   LET a == Registry[k]
                       b == GetModule(Registry', a.name)
                   IN /\ HasModule(Registry', a.name)
                      /\ b.status = a.status
                      /\ b.pid = a.pid
                      /\ b.config = a.config
                      /\ b.ramAllocation = a.ramAllocation
                      /\ a.name # BuiltinName => b = a]_vars

\* the restart kept the built-in module's record (running, pid 1, disabled by
\* its stored config) and gave it the current channel ids, and the operator
\* then re-registered the other module, which had been started: its record is
\* fresh while its process is alive
C36_Witness ==
    /\ dpc \notin {"boot", "initial"}
    /\ HasModule(Registry, BuiltinName)
    /\ GetModule(Registry, BuiltinName).status = "running"
    /\ GetModule(Registry, BuiltinName).pid = 1
    /\ ~GetModule(Registry, BuiltinName).config.enabled
    /\ GetModule(Registry, BuiltinName).controlPort = ControlPortOf(BuiltinName)
    /\ lastCall.op = "registerModule"
    /\ lastCall.replaced
    /\ ret
    /\ lastCall.name # BuiltinName
    /\ FreshRecord(GetModule(Registry, lastCall.name), now)
    /\ \E pid \in 1..Len(procs) :
          procs[pid].module = lastCall.name /\ procs[pid].alive

\* ========================================================================
\* Module processes and recorded pids
\* ========================================================================
\* the live processes launched for a module
LiveProcesses(name) ==
    {pid \in 1..Len(procs) : procs[pid].alive /\ procs[pid].module = name}

\* C37: every registered module has at most one live process launched for it,
\* and the pid of a live one is the pid in the module's record.
C37_OneLiveProcess ==
    \A k \in 1..Len(Registry) :
        /\ Cardinality(LiveProcesses(Registry[k].name)) <= 1
        /\ \A pid \in LiveProcesses(Registry[k].name) : Registry[k].pid = pid

\* ========================================================================
\* Failed writes of the registry
\* ========================================================================
\* the answers of the registry's read operations are the same after the step
SameReads ==
    /\ getAllModules(registryFile', defaultRegistry')
          = getAllModules(registryFile, defaultRegistry)
    /\ \A name \in ModuleNames :
          /\ isModuleRegistered(registryFile', defaultRegistry', name)
                = isModuleRegistered(registryFile, defaultRegistry, name)
          /\ getModuleStatus(registryFile', defaultRegistry', name)
                = getModuleStatus(registryFile, defaultRegistry, name)

\* C38: a registerModule, unregisterModule or update call that returns false
\* leaves the answers of isModuleRegistered, getModuleStatus and getAllModules
\* as they were before the call, with a registry file and without one.
C38_FailedWriteInvisible ==
    [][(calls' # calls /\ ~ret') => SameReads]_vars

\* ------------------------------------------------------------------------
\* allocateResources on objects with identity
\*
\* A heap holds the objects and the arrays that exist; a reference is the
\* place of an object in heap.objects or of an array in heap.arrays, and an
\* array is a sequence of object references.  Creating an object or an array
\* appends to the heap; a write changes the object or array a reference
\* names, for every holder of that reference.
\* ------------------------------------------------------------------------
NewObject(heap, value) ==
    [heap |-> [heap EXCEPT !.objects = Append(@, value)],
     ref |-> Len(heap.objects) + 1]

NewArray(heap, elements) ==
    [heap |-> [heap EXCEPT !.arrays = Append(@, elements)],
     ref |-> Len(heap.arrays) + 1]

\* ({ ...server }): a new object with the fields of the given one
SameObject(heap, ref) == [heap |-> heap, ref |-> ref]

SpreadObject(heap, ref) == NewObject(heap, heap.objects[ref])

\* pool.map(server => ({ ...server })): a new array of new objects
MapSpread(heap, array) ==
    LET elements == heap.arrays[array]
        f[k \in 0..Len(elements)] ==
            IF k = 0 THEN [heap |-> heap, refs |-> <<>>]
            ELSE LET copy == SpreadObject(f[k - 1].heap, elements[k])
                 IN [heap |-> copy.heap, refs |-> Append(f[k - 1].refs, copy.ref)]
    IN NewArray(f[Len(elements)].heap, f[Len(elements)].refs)

\* [...array]: a new array that holds the same objects
SpreadArray(heap, array) == NewArray(heap, heap.arrays[array])

\* array.sort(compare): reorders the array it is called on
SortInPlace(heap, array, Cmp(_, _)) ==
    LET CmpRefs(x, y) == Cmp(heap.objects[x], heap.objects[y])
    IN [heap EXCEPT !.arrays[array] = StableSort(heap.arrays[array], CmpRefs)]

\* server.availableRam -= toAllocate, on the object the loop variable names
ConsumeOnHeap(heap, ref, toAllocate) ==
    [heap EXCEPT !.objects[ref].availableRam = @ - toAllocate]

\* the distribution loop over the array sortedPool, from position k on
RECURSIVE DistributeOnHeap(_, _, _, _, _, _)
DistributeOnHeap(heap, sortedPool, k, serverAllocations, totalAllocated, targetRam) ==
    IF k > Len(heap.arrays[sortedPool]) \/ totalAllocated >= targetRam
    THEN [heap |-> heap, serverAllocations |-> serverAllocations,
          totalAllocated |-> totalAllocated]
    ELSE LET ref == heap.arrays[sortedPool][k]
             server == heap.objects[ref]
             needed == targetRam - totalAllocated
             toAllocate == ToAllocate(needed, server.availableRam)
         IN IF server.availableRam <= 0 \/ toAllocate <= 0
            THEN DistributeOnHeap(heap, sortedPool, k + 1, serverAllocations,
                                  totalAllocated, targetRam)
            ELSE DistributeOnHeap(ConsumeOnHeap(heap, ref, toAllocate),
                                  sortedPool, k + 1,
                                  (server.hostname :> toAllocate) @@ serverAllocations,
                                  Accumulate(totalAllocated, toAllocate), targetRam)

\* remainingPool.find(s => s.hostname === hostname): the first object of the
\* array with that hostname, 0 if none
FindOnHeap(heap, array, hostname) ==
    LET refs == heap.arrays[array]
        Found(k) == heap.objects[refs[k]].hostname = hostname
    IN IF \E k \in 1..Len(refs) : Found(k)
       THEN refs[CHOOSE k \in 1..Len(refs) :
                    Found(k) /\ \A j \in 1..(k - 1) : ~Found(j)]
       ELSE 0

\* the rollback loop: server.availableRam += allocated on the object found
\* in remainingPool for each recorded hostname (one entry per hostname)
RollbackOnHeap(heap, remainingPoolRef, serverAllocations) ==
    LET Given(ref) ==
            {h \in DOMAIN serverAllocations :
                FindOnHeap(heap, remainingPoolRef, h) = ref}
        Back(ref) == SumOver(Given(ref), LAMBDA h : serverAllocations[h])
    IN [heap EXCEPT !.objects =
            [ref \in DOMAIN heap.objects |->
                IF Given(ref) = {} THEN heap.objects[ref]
                ELSE [heap.objects[ref] EXCEPT !.availableRam = @ + Back(ref)]]]

AllocateToModuleOnHeap(heap, requestRef, remainingPoolRef) ==
    LET request == heap.objects[requestRef]
        CmpP(a, b) == ComparePreferred(a, b, Range(request.preferredServers))
        spread == SpreadArray(heap, remainingPoolRef)
        sortedPool == spread.ref
        sorted == IF Len(request.preferredServers) > 0
                  THEN SortInPlace(spread.heap, sortedPool, CmpP)
                  ELSE SortInPlace(spread.heap, sortedPool, CompareDefault)
        d == DistributeOnHeap(sorted, sortedPool, 1, <<>>, 0, request.maxRam)
    IN IF BelowMinimum(d.totalAllocated, request)
       THEN [allocation |-> Null,
             heap |-> RollbackOnHeap(d.heap, remainingPoolRef, d.serverAllocations)]
       ELSE [allocation |-> <<[moduleName |-> request.moduleName,
                               allocatedRam |-> d.totalAllocated,
                               serverAllocations |-> d.serverAllocations]>>,
             heap |-> d.heap]

RECURSIVE AllocateLoopOnHeap(_, _, _, _, _)
AllocateLoopOnHeap(heap, sortedRequests, k, remainingPoolRef, allocs) ==
    IF k > Len(heap.arrays[sortedRequests])
    THEN [allocations |-> allocs, heap |-> heap]
    ELSE LET r == AllocateToModuleOnHeap(heap, heap.arrays[sortedRequests][k],
                                         remainingPoolRef)
         IN AllocateLoopOnHeap(r.heap, sortedRequests, k + 1, remainingPoolRef,
                               allocs \o r.allocation)

\* allocateResources(pool, requests) called with references to two arrays
AllocateResourcesOnHeap(heap, poolRef, requestsRef) ==
    LET working == MapSpread(heap, poolRef)
        spread == SpreadArray(working.heap, requestsRef)
        sorted == SortInPlace(spread.heap, spread.ref, ComparePriority)
        r == AllocateLoopOnHeap(sorted, spread.ref, 1, working.ref, <<>>)
    IN [allocations |-> optimizeAllocation(r.allocations), heap |-> r.heap,
        remainingPool |-> working.ref]

\* the objects an array holds, in the array's order
Contents(heap, array) ==
    [k \in 1..Len(heap.arrays[array]) |-> heap.objects[heap.arrays[array][k]]]

\* the caller's heap: one object per server and per request, the pool array
\* and the requests array
CallerHeap(p, reqs) ==
    [heap |-> [objects |-> p \o reqs,
               arrays |-> <<[k \in 1..Len(p) |-> k],
                            [k \in 1..Len(reqs) |-> Len(p) + k]>>],
     pool |-> 1, requests |-> 2]

\* ------------------------------------------------------------------------
\* Two allocateResources calls on the same arrays
\* ------------------------------------------------------------------------
\* one call on the caller's two arrays; afterwards pool and requests are
\* what the caller reads from those arrays
CallWithArrays(from, to) ==
    /\ apc = from
    /\ \E caller \in {CallerHeap(pool, requests)} :
          \E r \in {AllocateResourcesOnHeap(caller.heap, caller.pool, caller.requests)} :
              /\ allocations' = r.allocations
              /\ remainingPool' = Contents(r.heap, r.remainingPool)
              /\ pool' = Contents(r.heap, caller.pool)
              /\ requests' = Contents(r.heap, caller.requests)
    /\ apc' = to
    /\ UNCHANGED <<regVars, daemonVars, netVars, sysVars>>

CallFirst == CallWithArrays("input", "done")

\* the caller passes the same pool and requests arrays to a second call
CallAgain == CallWithArrays("done", "again")

RepeatNext == CallFirst \/ CallAgain

RepeatSpec == AllocInit /\ [][RepeatNext]_vars

\* on every call the objects with identity give what the call on values
\* gives: the same allocations and the same final working pool
OnHeapAgrees ==
    [][(apc' # apc) =>
          /\ allocations' = allocateResources(pool, requests).allocations
          /\ remainingPool' = allocateResources(pool, requests).pool]_vars

\* C39: an allocateResources call leaves every entry of the pool it was given
\* with the availableRam it had and the requests array in its order, and a
\* second call with the same pool and requests returns the same allocations.
C39_InputsUnchanged ==
    [][(apc' # apc) =>
          /\ Len(pool') = Len(pool)
          /\ \A i \in 1..Len(pool) : pool'[i].availableRam = pool[i].availableRam
          /\ requests' = requests
          /\ (apc = "done" => allocations' = allocations)]_vars

\* a second call has returned; the first consumed RAM, refused a request and
\* took the requests in another order than the caller's
C39_Witness ==
    /\ apc = "again"
    /\ remainingPool # pool
    /\ SortedRequests(requests) # requests
    /\ allocations # <<>>
    /\ Len(allocations) < Len(requests)

====
